---- MODULE Spec2Model ----
(***************************************************************************)
(* State-machine model of the IAB clip-wrapped track file writer and       *)
(* reader of asdcplib (src/src/AS_02_IAB.cpp) on top of the generic MXF    *)
(* reader (src/src/h__Reader.cpp).                                         *)
(*                                                                         *)
(* The file on disk is modelled from m_ClipStart on: `body' holds the      *)
(* bytes that follow the 16 KiB header area, so the absolute file offset   *)
(* of body[i] is HeaderSize + i - 1.  An owning pointer (mem_ptr) is a     *)
(* sequence of length 0 (NULL) or 1 (the object).                          *)
(***************************************************************************)
EXTENDS Integers, Sequences, FiniteSets, TLC

\* ---------------------------------------------------------------- bounds
MaxFrames == 2
MaxMeta == 1
\* WriteMetadata calls on one MXFWriter object, over all its files
MaxStreams == 2
\* frames and metadata packets written between OpenWrite and FinalizeMxf
MaxWrites == 2
PartitionPackLen == 4

\* ------------------------------------------------------ program constants
SMPTE_UL_LENGTH == 16
MXF_BER_LENGTH == 4
CLIP_BER_LENGTH_SIZE == 8
RESERVED_KL_SIZE == SMPTE_UL_LENGTH + CLIP_BER_LENGTH_SIZE
HeaderSize == 16384
preambleTLLen == 5
frameTLLen == 5
Huge == 1073741824

\* --------------------------------------------------------------- helpers
RECURSIVE BEBytes(_, _)
\* n big-endian bytes of val
BEBytes(val, n) ==
  IF n = 0 THEN <<>> ELSE BEBytes(val \div 256, n - 1) \o <<val % 256>>

\* Kumu::write_BER(buf, val, ber_len): 0x80 + (ber_len - 1), then
\* ber_len - 1 big-endian bytes of val.
write_BER(val, ber_len) == <<128 + (ber_len - 1)>> \o BEBytes(val, ber_len - 1)

\* element_ul_bytes: the clip-wrapped element UL with byte 13 and byte 15 set to 1
element_ul_bytes == [i \in 1..SMPTE_UL_LENGTH |-> IF i \in {14, 16} THEN 1 ELSE 6]

\* the key of a generic stream data element
GenericStream_DataElement == [i \in 1..SMPTE_UL_LENGTH |-> 7]

\* a serialized partition pack (contents not interpreted by the model)
PartitionPackBytes == [i \in 1..PartitionPackLen |-> 8]

RECURSIVE SumSizes(_)
SumSizes(fs) == IF fs = <<>> THEN 0 ELSE Len(Head(fs)) + SumSizes(Tail(fs))

\* Kumu::FileWriter::Write at absolute offset pos: overwrite, extending the file
FileWrite(body, pos, bytes) ==
  LET off == pos - HeaderSize
      newLen == IF off + Len(bytes) > Len(body) THEN off + Len(bytes) ELSE Len(body)
  IN [i \in 1..newLen |->
        IF i > off /\ i <= off + Len(bytes) THEN bytes[i - off] ELSE body[i]]

\* ---------------------------------------------------------- frame inputs
FrameA == <<1, 0, 0, 0, 0, 2, 0, 0, 0, 0>>
FrameB == <<1, 0, 0, 0, 5, 11, 12, 13, 14, 15, 2, 0, 0, 0, 5, 21, 22, 23, 24, 25>>
\* a non-empty frame that is not a preamble TLV followed by a frame TLV
FrameX == FrameA \o <<9>>
FrameE == <<>>
Frames == {FrameA, FrameB, FrameX, FrameE}

Payloads == {<<61, 62, 63>>}
Descriptions == {"d1"}
MimeTypes == {"text/xml"}

NoArg == <<>>

VARIABLES
  m_State,            \* MXFWriter::m_State
  m_Writer,           \* MXFWriter::m_Writer (mem_ptr<h__Writer>)
  m_ClipStart,        \* MXFWriter::m_ClipStart
  m_GenericStreamID,  \* MXFWriter::m_GenericStreamID
  m_NextTrackID,      \* MXFWriter::m_NextTrackID
  w_call,             \* the last MXFWriter call
  w_result,           \* what it returned
  w_fault,            \* the first file operation that failed inside it, or "none"
  alive,              \* FALSE once the process has died
  disk,               \* the file
  g,                  \* history of the session that produced `disk'
  r_State,            \* MXFReader::m_State
  m_Reader,           \* MXFReader::m_Reader (mem_ptr<h__Reader>)
  m_CurrentFrameIndex,
  m_CurrentFrameBuffer,
  r_call,             \* the last MXFReader call
  r_result,           \* what it returned
  r_io,               \* file operations performed by the last MXFReader call
  r_seek,             \* the position that call gave to m_File.Seek, if it made one
  r_out,              \* the caller's mimeType and FrameBuffer after a ReadMetadata
  e_Context,          \* AESEncContext::m_Context (mem_ptr<h__AESContext>)
  d_Context,          \* AESDecContext::m_Context
  h_Context,          \* HMACContext::m_Context (mem_ptr<h__HMACContext>)
  c_call,             \* the last call on one of the three crypto contexts
  c_result,           \* what it returned
  c_out,              \* the caller's output buffer after that call
  c_g,                \* history of the crypto contexts (see NoCrypto)
  k_File,             \* h__Reader::m_File and the file it has open
  k_Reader,           \* the other members of an ASDCP::h__Reader
  k_call,             \* the last call on the h__Reader
  k_result,           \* what it returned
  k_out               \* the caller's FrameBuf after that call

wvars == <<m_State, m_Writer, m_ClipStart, m_GenericStreamID, m_NextTrackID,
           w_call, w_result, w_fault, alive, disk, g>>
rvars == <<r_State, m_Reader, m_CurrentFrameIndex, m_CurrentFrameBuffer,
           r_call, r_result, r_io, r_seek, r_out>>
\* the variables of the components other than MXFWriter and MXFReader
cvars == <<e_Context, d_Context, h_Context, c_call, c_result, c_out, c_g>>
kvars == <<k_File, k_Reader, k_call, k_result, k_out>>
xvars == <<cvars, kvars>>
vars == <<m_State, m_Writer, m_ClipStart, m_GenericStreamID, m_NextTrackID,
          w_call, w_result, w_fault, alive, disk, g,
          r_State, m_Reader, m_CurrentFrameIndex, m_CurrentFrameBuffer,
          r_call, r_result, r_io, r_seek, r_out,
          e_Context, d_Context, h_Context, c_call, c_result, c_out, c_g,
          k_File, k_Reader, k_call, k_result, k_out>>

NULL == <<>>

\* r_seek when the call made no Seek
NoSeek == 0 - 1

\* the mimeType string and the FrameBuffer a caller hands to ReadMetadata, and
\* r_out after every other call
NoOutput == [mimeType |-> "", FrameBuffer |-> <<>>]

\* MXFReader() does not set m_CurrentFrameIndex; no code path compares it
\* before OpenRead has assigned it (see CacheIndexAssigned)
Uninitialized == -2

\* The writer is driven first and the reader afterwards: the file is read
\* once the MXFWriter object has been destroyed, and a destroyed writer is
\* not called again.
WriterLive == w_call.op /= "delete"

WriterDone == w_call.op = "delete"

Call(op, arg) == [op |-> op, arg |-> arg]

\* md is the set of the types of the objects in the header metadata
NoFile == [exists |-> FALSE, hdr |-> FALSE, md |-> {}, body |-> <<>>, footer |-> <<>>]
EmptyFile == [exists |-> TRUE, hdr |-> FALSE, md |-> {}, body |-> <<>>, footer |-> <<>>]

\* the header metadata objects OpenRead looks for; WriteAS02Header writes them
HeaderObjects == {"IABEssenceDescriptor", "IABSoundfieldLabelSubDescriptor", "Track"}

\* history of a write session: the frames and metadata payloads written, in order
NoHistory == <<>>

\* the value of storage that was never written
Indeterminate == 0 - 1

\* What the crypto contexts have been fed since their keys and IVs were set:
\* enc and dec hold the key, the IV given to SetIVec, and the plaintext and
\* ciphertext that went through EncryptBlock / DecryptBlock since then; mac
\* holds the key, the label set and the bytes given to Update.
\* dec also records whether some DecryptBlock call got one buffer as both
\* input and output.
NoRun == [key |-> 0, iv |-> Indeterminate, pt |-> <<>>, ct |-> <<>>, same_buf |-> FALSE]
NoCrypto == [enc |-> NoRun, dec |-> NoRun,
             mac |-> [key |-> 0, set |-> "none", data |-> <<>>]]

\* ------------------------------------------------------------- MXFWriter

\* a Reset that keeps the h__Writer
WriterReset_KeepsWriter ==
  /\ m_Writer' = m_Writer
  /\ m_State' = "ST_BEGIN"

\* MXFWriter::Reset
WriterReset ==
  /\ m_Writer' = NULL
  /\ m_State' = "ST_BEGIN"

\* Reset after a failure closes a file that has no footer and no RIP.  Such a
\* file cannot be opened by the reader, and the model keeps none of its bytes.
Abandon ==
  /\ disk' = EmptyFile
  /\ g' = NoHistory

\* a guard that lets a second OpenWrite through while no frame was written
OpenWriteRejects_RunningOnly(st) == st = "ST_RUNNING"

\* guard of OpenWrite
OpenWriteRejects(st) == st /= "ST_BEGIN"

\* guard of WriteFrame and FinalizeClip
NotRunning(st) == st = "ST_BEGIN"

\* offsets counted from the first byte after the reserved key and length
InitialStreamOffset_Zero == RESERVED_KL_SIZE - SMPTE_UL_LENGTH - CLIP_BER_LENGTH_SIZE

\* m_StreamOffset after the reserved key and length have been written
InitialStreamOffset == RESERVED_KL_SIZE

\* the h__Writer right after WriteAS02Header: the header area is 16 KiB and
\* the RIP so far lists the header partition
NewWriter ==
  [pos |-> HeaderSize, m_StreamOffset |-> 0, m_FramesWritten |-> 0,
   m_IndexWriter |-> <<>>,
   m_RIP |-> <<[BodySID |-> 0, ByteOffset |-> 0]>>,
   m_Sets |-> <<>>, m_Tracks |-> <<>>]

OpenWrite ==
  /\ alive
  /\ WriterLive
  /\ w_call' = Call("OpenWrite", NoArg)
  /\ IF OpenWriteRejects(m_State)
       THEN /\ w_result' = "STATE"
            /\ w_fault' = "none"
            /\ UNCHANGED <<m_State, m_Writer, m_ClipStart, disk, g>>
       ELSE \E fail \in {"none", "open", "header", "write"} :
              /\ w_fault' = fail
              /\ CASE fail = "open" ->
                        /\ WriterReset
                        /\ w_result' = "FILEOPEN"
                        /\ UNCHANGED <<m_ClipStart, disk, g>>
                   [] fail = "header" ->
                        /\ WriterReset
                        /\ w_result' = "WRITEFAIL"
                        /\ Abandon
                        /\ UNCHANGED m_ClipStart
                   [] fail = "write" ->
                        /\ WriterReset
                        /\ w_result' = "WRITEFAIL"
                        /\ Abandon
                        /\ m_ClipStart' = NewWriter.pos
                   [] OTHER ->
                        /\ m_ClipStart' = NewWriter.pos
                        /\ g' = NoHistory
                        /\ disk' = [EmptyFile EXCEPT
                                      !.hdr = TRUE,
                                      !.md = HeaderObjects,
                                      !.body = FileWrite(<<>>, NewWriter.pos,
                                                 element_ul_bytes \o
                                                 write_BER(0, CLIP_BER_LENGTH_SIZE))]
                        /\ m_Writer' = <<[NewWriter EXCEPT
                                            !.pos = NewWriter.pos + RESERVED_KL_SIZE,
                                            !.m_StreamOffset = InitialStreamOffset]>>
                        /\ m_State' = "ST_READY"
                        /\ w_result' = "OK"
  /\ UNCHANGED <<m_GenericStreamID, m_NextTrackID, alive>>
  /\ UNCHANGED rvars
  /\ UNCHANGED xvars

\* Entry.StreamOffset of the entry WriteFrame pushes
EntryStreamOffset(w) == w.m_StreamOffset

\* a writer that forgets to advance the offset
AdvanceStreamOffset_Stuck(off, sz) == off

\* m_StreamOffset after a frame of sz bytes was written
AdvanceStreamOffset(off, sz) == off + sz

\* a WriteFrame that falls back to READY
StateAfterFrame_Ready == "ST_READY"

\* this->m_State = ST_RUNNING
StateAfterFrame == "ST_RUNNING"

\* a writer that does not count the frame
IncrementFramesWritten_Skips(n) == n

\* m_FramesWritten++
IncrementFramesWritten(n) == n + 1

WriteFrame ==
  /\ alive
  /\ WriterLive
  /\ \E frame \in Frames :
       /\ w_call' = Call("WriteFrame", frame)
       /\ IF NotRunning(m_State)
            THEN /\ w_result' = "INIT"
                 /\ w_fault' = "none"
                 /\ UNCHANGED <<m_State, m_Writer, disk, g>>
            ELSE LET w == m_Writer[1]
                     pushed == [w EXCEPT !.m_IndexWriter =
                                  Append(@, EntryStreamOffset(w))]
                 IN /\ Len(w.m_IndexWriter) < MaxFrames
                    /\ Len(g) < MaxWrites
                    /\ \E ok \in BOOLEAN :
                         /\ w_fault' = IF ok THEN "none" ELSE "write"
                         /\ IF ok
                           THEN /\ disk' = [disk EXCEPT !.body =
                                              FileWrite(@, w.pos, frame)]
                                /\ m_Writer' = <<[pushed EXCEPT
                                       !.pos = @ + Len(frame),
                                       !.m_FramesWritten = IncrementFramesWritten(@),
                                       !.m_StreamOffset =
                                          AdvanceStreamOffset(@, Len(frame))]>>
                                /\ m_State' = StateAfterFrame
                                /\ w_result' = "OK"
                                /\ g' = Append(g, <<"F", frame>>)
                           ELSE /\ WriterReset
                                /\ w_result' = "WRITEFAIL"
                                /\ Abandon
  /\ UNCHANGED <<m_ClipStart, m_GenericStreamID, m_NextTrackID, alive>>
  /\ UNCHANGED rvars
  /\ UNCHANGED xvars

\* the value FinalizeClip encodes
ClipSize(w) == w.m_StreamOffset - RESERVED_KL_SIZE

\* where FinalizeClip seeks before it writes the length
ClipLengthPosition(clipStart) == clipStart + SMPTE_UL_LENGTH

\* the buffer FinalizeClip writes
ClipLengthBytes(size) == write_BER(size, CLIP_BER_LENGTH_SIZE)

\* FinalizeClip does not test the result of its first Seek: when that Seek
\* fails the file position stays where it was and the length is written there.
FinalizeClip ==
  /\ alive
  /\ WriterLive
  /\ w_call' = Call("FinalizeClip", NoArg)
  /\ IF NotRunning(m_State)
       THEN /\ w_result' = "INIT"
            /\ w_fault' = "none"
            /\ UNCHANGED <<m_State, m_Writer, disk, g>>
       ELSE LET w == m_Writer[1]
                current_position == w.pos
            IN \E seek1 \in BOOLEAN, fail \in {"none", "write", "seek"} :
                 LET at == IF seek1 THEN ClipLengthPosition(m_ClipStart)
                                    ELSE current_position
                 IN /\ w_fault' = IF seek1 THEN fail ELSE "seek to length"
                    /\ CASE fail = "write" ->
                           /\ WriterReset
                           /\ w_result' = "WRITEFAIL"
                           /\ Abandon
                      [] fail = "seek" ->
                           /\ WriterReset
                           /\ w_result' = "BADSEEK"
                           /\ Abandon
                      [] OTHER ->
                           /\ disk' = [disk EXCEPT !.body =
                                  FileWrite(@, at, ClipLengthBytes(ClipSize(w)))]
                           /\ m_Writer' = <<[w EXCEPT !.pos = current_position]>>
                           /\ w_result' = "OK"
                           /\ UNCHANGED <<m_State, g>>
  /\ UNCHANGED <<m_ClipStart, m_GenericStreamID, m_NextTrackID, alive>>
  /\ UNCHANGED rvars
  /\ UNCHANGED xvars


\* what WriteAS02Footer leaves in the file: the footer partition with the index
\* table segment (one entry per frame) and the RIP, written at the file position
Footer(w) ==
  [at |-> w.pos,
   index |-> w.m_IndexWriter,
   rip |-> Append(w.m_RIP, [BodySID |-> 0, ByteOffset |-> w.pos]),
   sets |-> w.m_Sets,
   tracks |-> w.m_Tracks]

\* FinalizeMxf has no state test: in ST_BEGIN it calls through the null m_Writer
\* (mem_ptr::operator-> asserts, and dereferences NULL when asserts are off).
FinalizeMxf ==
  /\ alive
  /\ WriterLive
  /\ w_call' = Call("FinalizeMxf", NoArg)
  /\ IF m_Writer = NULL
       THEN /\ alive' = FALSE
            /\ w_result' \in {"SIGABRT", "SIGSEGV"}
            /\ w_fault' = "none"
            /\ UNCHANGED <<m_State, m_Writer, disk, g>>
       ELSE LET w == m_Writer[1]
            IN /\ \E ok \in BOOLEAN :
                    /\ w_fault' = IF ok THEN "none" ELSE "write"
                    /\ IF ok
                      THEN /\ disk' = [disk EXCEPT
                                 !.body = SubSeq(@, 1, w.pos - HeaderSize),
                                 !.footer = <<Footer(w)>>]
                           /\ w_result' = "OK"
                           /\ UNCHANGED g
                      ELSE /\ Abandon
                           /\ w_result' = "WRITEFAIL"
               /\ WriterReset
               /\ UNCHANGED alive
  /\ UNCHANGED <<m_ClipStart, m_GenericStreamID, m_NextTrackID>>
  /\ UNCHANGED rvars
  /\ UNCHANGED xvars

\* Write_EKLV_Packet for a plaintext packet: the key, a BER length of
\* MXF_BER_LENGTH bytes and the value; StreamOffset is passed by reference and
\* is advanced by the number of bytes written.
EKLVBytes(key, value) == key \o write_BER(Len(value), MXF_BER_LENGTH) \o value

StreamOffsetAfterEKLV(off, value) == off + SMPTE_UL_LENGTH + MXF_BER_LENGTH + Len(value)

\* WriteMetadata has no state test either.  The caller's strings and payload
\* come from the sets given, and at most maxSets sets go into one file.
WriteMetadataFrom(payloads, descriptions, mimeTypes, maxSets) ==
  /\ alive
  /\ WriterLive
  /\ \E payload \in payloads, desc \in descriptions, mime \in mimeTypes :
       /\ w_call' = Call("WriteMetadata", payload)
       /\ IF m_Writer = NULL
            THEN /\ alive' = FALSE
                 /\ w_result' \in {"SIGABRT", "SIGSEGV"}
                 /\ w_fault' = "none"
                 /\ UNCHANGED <<m_Writer, m_GenericStreamID, m_NextTrackID, disk, g>>
            ELSE LET w == m_Writer[1]
                     here == w.pos
                     GSPart == [ThisPartition |-> here,
                                PreviousPartition |-> w.m_RIP[Len(w.m_RIP)].ByteOffset,
                                BodySID |-> m_GenericStreamID]
                     w1 == [w EXCEPT
                              !.m_Tracks = Append(@, m_NextTrackID),
                              !.m_Sets = Append(@, [TextDataDescription |-> desc,
                                                    TextMIMEMediaType |-> mime,
                                                    GenericStreamSID |-> m_GenericStreamID,
                                                    Partition |-> GSPart]),
                              !.m_RIP = Append(@, [BodySID |-> GSPart.BodySID,
                                                   ByteOffset |-> here]),
                              !.pos = here + PartitionPackLen]
                     body1 == FileWrite(disk.body, here, PartitionPackBytes)
                 IN /\ Len(w.m_Sets) < maxSets
                    /\ m_GenericStreamID < 2 + MaxStreams
                    /\ Len(g) < MaxWrites
                    /\ m_NextTrackID' = m_NextTrackID + 1
                    /\ m_GenericStreamID' = m_GenericStreamID + 1
                    /\ UNCHANGED alive
                    /\ \E ok \in BOOLEAN :
                         /\ w_fault' = IF ok THEN "none" ELSE "write"
                         /\ IF ok
                           THEN /\ disk' = [disk EXCEPT !.body =
                                     FileWrite(body1, w1.pos,
                                        EKLVBytes(GenericStream_DataElement, payload))]
                                /\ m_Writer' = <<[w1 EXCEPT
                                     !.pos = @ + SMPTE_UL_LENGTH + MXF_BER_LENGTH + Len(payload),
                                     !.m_StreamOffset = StreamOffsetAfterEKLV(@, payload)]>>
                                /\ w_result' = "OK"
                                /\ g' = Append(g, <<"M", payload, desc, mime>>)
                           ELSE /\ disk' = [disk EXCEPT !.body = body1]
                                /\ m_Writer' = <<w1>>
                                /\ w_result' = "WRITEFAIL"
                                /\ UNCHANGED g
  /\ UNCHANGED <<m_State, m_ClipStart>>
  /\ UNCHANGED rvars
  /\ UNCHANGED xvars

WriteMetadata == WriteMetadataFrom(Payloads, Descriptions, MimeTypes, MaxMeta)

\* ------------------------------------------------------------- MXFReader

\* ~MXFWriter(), called on a writer that holds no file: the object and its
\* counters are gone, the file stays as it was left
DestroyWriter ==
  /\ alive
  /\ WriterLive
  /\ m_State = "ST_BEGIN"
  /\ w_call' = Call("delete", NoArg)
  /\ w_result' = "OK"
  /\ w_fault' = "none"
  /\ m_ClipStart' = 0
  /\ m_GenericStreamID' = 2
  /\ m_NextTrackID' = 2
  /\ UNCHANGED <<m_State, m_Writer, alive, disk, g>>
  /\ UNCHANGED rvars
  /\ UNCHANGED xvars

\* a Reset that releases the h__Reader and keeps the state
ReaderReset_KeepsState ==
  /\ m_Reader' = NULL
  /\ r_State' = r_State

\* MXFReader::Reset
ReaderReset ==
  /\ m_Reader' = NULL
  /\ r_State' = "ST_READER_BEGIN"

\* h__Reader::OpenMXFRead, then the index is loaded from the footer:
\* the header is parsed (the file position is then the end of the header
\* area); with a three-pair RIP the file is positioned at the second pair and
\* a partition pack is parsed; m_EssenceStart is the position reached.
EssenceStart(file) ==
  LET rip == file.footer[1].rip
  IN IF Len(rip) = 3 THEN rip[2].ByteOffset + PartitionPackLen ELSE HeaderSize

Readable(file) == file.exists /\ file.hdr /\ file.footer /= <<>>

OpenedReader(file) ==
  [pos |-> EssenceStart(file),
   m_EssenceStart |-> EssenceStart(file),
   m_LastPosition |-> 0,
   index |-> file.footer[1].index,
   m_RIP |-> file.footer[1].rip,
   m_Sets |-> file.footer[1].sets]

\* m_HeaderPart.GetMDObjectByType: *Object is the first object of the type,
\* or 0 when the header metadata has none
NoObject == "0"
GetMDObjectByType(md, type) == IF type \in md THEN type ELSE NoObject

\* m_HeaderPart.GetMDObjectsByType: the list of the objects of the type
GetMDObjectsByType(md, type) == IF type \in md THEN <<type>> ELSE <<>>

\* a header check that does not look for a Track
HeaderChecks_NoTrack(md) ==
  /\ GetMDObjectByType(md, "IABEssenceDescriptor") /= NoObject
  /\ GetMDObjectByType(md, "IABSoundfieldLabelSubDescriptor") /= NoObject

\* the three tests of OpenRead that throw RESULT_FAIL
HeaderChecks(md) ==
  /\ GetMDObjectByType(md, "IABEssenceDescriptor") /= NoObject
  /\ GetMDObjectByType(md, "IABSoundfieldLabelSubDescriptor") /= NoObject
  /\ GetMDObjectsByType(md, "Track") /= <<>>

OpenRead ==
  /\ alive
  /\ WriterDone
  /\ r_call' = Call("OpenRead", NoArg)
  /\ r_out' = NoOutput
  /\ IF r_State /= "ST_READER_BEGIN"
       THEN /\ r_result' = "STATE"
            /\ r_io' = 0
            /\ r_seek' = NoSeek
            /\ UNCHANGED <<r_State, m_Reader, m_CurrentFrameIndex>>
       ELSE \E ok \in BOOLEAN :
              IF ok /\ Readable(disk)
                THEN IF HeaderChecks(disk.md)
                       THEN /\ m_Reader' = <<OpenedReader(disk)>>
                            /\ m_CurrentFrameIndex' = -1
                            /\ r_State' = "ST_READER_READY"
                            /\ r_result' = "OK"
                            /\ r_io' = 1
                            /\ r_seek' = NoSeek
                       ELSE /\ ReaderReset
                            /\ r_result' = "FAIL"
                            /\ r_io' = 1
                            /\ r_seek' = NoSeek
                            /\ UNCHANGED m_CurrentFrameIndex
                ELSE /\ ReaderReset
                     /\ r_result' = IF disk.exists THEN "READFAIL" ELSE "FILEOPEN"
                     /\ r_io' = 1
                     /\ r_seek' = NoSeek
                     /\ UNCHANGED m_CurrentFrameIndex
  /\ UNCHANGED m_CurrentFrameBuffer
  /\ UNCHANGED wvars
  /\ UNCHANGED xvars

\* The file on disk is replaced by the file of another producer: the same
\* partitions, essence and index, with any of the header metadata objects
\* left out.
OtherProducer ==
  \E md \in SUBSET HeaderObjects :
    /\ alive
    /\ WriterDone
    /\ r_State = "ST_READER_BEGIN"
    /\ Readable(disk)
    /\ disk' = [disk EXCEPT !.md = md]
    /\ UNCHANGED <<m_State, m_Writer, m_ClipStart, m_GenericStreamID, m_NextTrackID,
                   w_call, w_result, w_fault, alive, g>>
    /\ UNCHANGED rvars
    /\ UNCHANGED xvars

Close ==
  /\ alive
  /\ WriterDone
  /\ r_call' = Call("Close", NoArg)
  /\ r_out' = NoOutput
  /\ r_io' = 0
  /\ r_seek' = NoSeek
  /\ IF r_State = "ST_READER_BEGIN"
       THEN /\ r_result' = "INIT"
            /\ UNCHANGED <<r_State, m_Reader>>
       ELSE /\ ReaderReset
            /\ r_result' = "OK"
  /\ UNCHANGED <<m_CurrentFrameIndex, m_CurrentFrameBuffer>>
  /\ UNCHANGED wvars
  /\ UNCHANGED xvars

\* m_IndexAccess.GetDuration()
GetDuration(rd) == Len(rd.index)

GetFrameCount ==
  /\ alive
  /\ WriterDone
  /\ r_call' = Call("GetFrameCount", NoArg)
  /\ r_out' = NoOutput
  /\ r_io' = 0
  /\ r_seek' = NoSeek
  /\ r_result' = IF r_State = "ST_READER_BEGIN" THEN "INIT" ELSE "OK"
  /\ UNCHANGED <<r_State, m_Reader, m_CurrentFrameIndex, m_CurrentFrameBuffer>>
  /\ UNCHANGED wvars
  /\ UNCHANGED xvars


\* the length taken with the byte order reversed
BE32_LittleEndian(tl) ==
  IF tl[5] >= 64 THEN Huge
  ELSE tl[5] * 16777216 + tl[4] * 65536 + tl[3] * 256 + tl[2]

\* the 32-bit big-endian length in bytes 1..4 of a 5-byte TL (tl[1] is the tag);
\* every value of 2^30 or more stands for a length beyond any file modelled here
BE32(tl) ==
  IF tl[2] >= 64 THEN Huge
  ELSE tl[2] * 16777216 + tl[3] * 65536 + tl[4] * 256 + tl[5]

\* a reader that never uses its cache
CacheMiss_Always(frame_number, current) == TRUE

\* frame_number != m_CurrentFrameIndex
CacheMiss(frame_number, current) == frame_number /= current

\* m_IndexAccess.Lookup: fails for a frame number outside the index; otherwise
\* the entry's offset, made absolute from the start of the essence container
LookupFails(rd, frame_number) == frame_number >= Len(rd.index)

Lookup(rd, frame_number) == rd.m_EssenceStart + rd.index[frame_number + 1]

\* a Seek to the start of the essence, whatever the entry
SeekTarget_EssenceStart(rd, frame_number) == rd.m_EssenceStart

\* m_File.Seek(index_entry.StreamOffset), index_entry as Lookup filled it
SeekTarget(rd, frame_number) == Lookup(rd, frame_number)

\* bytes pos .. pos+len-1 lie in the part of the file whose bytes are modelled
Available(file, pos, len) ==
  pos >= HeaderSize /\ pos + len <= HeaderSize + Len(file.body)

FileBytes(file, pos, len) ==
  SubSeq(file.body, pos - HeaderSize + 1, pos - HeaderSize + len)

\* contents of a buffer filled from bytes the model does not hold, or left
\* behind by a Read that failed
Garbage == <<-1>>

Outcome(res, buf, pos, io) == [res |-> res, buf |-> buf, pos |-> pos, io |-> io]

\* a Read of len bytes at pos that the model cannot follow: it fails, or
\* delivers bytes unknown to the model
Unmodelled(pos, io) ==
  {Outcome("READFAIL", Garbage, pos, io), Outcome("OK", Garbage, pos, io)}

\* The uncached path of ReadFrame from the Seek on: every way it can end.
\* res = "OK" is the path that reaches `m_CurrentFrameIndex = frame_number'.
ReadOutcomes(file, start, old) ==
  {Outcome("BADSEEK", old, start, 1), Outcome("READFAIL", Garbage, start, 2)} \cup
     IF ~Available(file, start, preambleTLLen) THEN Unmodelled(start, 2)
     ELSE
     LET tl1 == FileBytes(file, start, preambleTLLen)
         preambleLen == BE32(tl1)
         p1 == start + preambleTLLen
         io1 == IF preambleLen > 0 THEN 3 ELSE 2
     IN IF preambleLen > 0 /\ ~Available(file, p1, preambleLen)
          THEN Unmodelled(p1, 3)
          ELSE
          LET b1 == tl1 \o FileBytes(file, p1, preambleLen)
              p2 == p1 + preambleLen
          IN (IF preambleLen > 0
                THEN {Outcome("READFAIL", Garbage, p1, 3)}
                ELSE {}) \cup
             {Outcome("READFAIL", Garbage, p2, io1 + 1)} \cup
             IF ~Available(file, p2, frameTLLen) THEN Unmodelled(p2, io1 + 1)
             ELSE
             LET tl2 == FileBytes(file, p2, frameTLLen)
                 frameLen == BE32(tl2)
                 p3 == p2 + frameTLLen
                 b2 == b1 \o tl2
             IN IF frameLen > 0 /\ ~Available(file, p3, frameLen)
                  THEN Unmodelled(p3, io1 + 2)
                  ELSE
                  (IF frameLen > 0
                     THEN {Outcome("READFAIL", Garbage, p3, io1 + 2)}
                     ELSE {}) \cup
                  {Outcome("OK", b2 \o FileBytes(file, p3, frameLen), p3 + frameLen,
                           IF frameLen > 0 THEN io1 + 2 ELSE io1 + 1)}

FrameNumbers == 0..MaxFrames

ReadFrame ==
  /\ alive
  /\ WriterDone
  /\ \E frame_number \in FrameNumbers :
       /\ r_call' = Call("ReadFrame", <<frame_number>>)
       /\ r_out' = NoOutput
       /\ IF r_State = "ST_READER_BEGIN"
            THEN /\ r_result' = "INIT"
                 /\ r_io' = 0
                 /\ r_seek' = NoSeek
                 /\ UNCHANGED <<r_State, m_Reader, m_CurrentFrameIndex,
                                m_CurrentFrameBuffer>>
            ELSE IF ~CacheMiss(frame_number, m_CurrentFrameIndex)
            THEN /\ r_State' = "ST_READER_RUNNING"
                 /\ r_result' = "OK"
                 /\ r_io' = 0
                 /\ r_seek' = NoSeek
                 /\ UNCHANGED <<m_Reader, m_CurrentFrameIndex, m_CurrentFrameBuffer>>
            ELSE IF LookupFails(m_Reader[1], frame_number)
            THEN /\ ReaderReset
                 /\ r_result' = "RANGE"
                 /\ r_io' = 0
                 /\ r_seek' = NoSeek
                 /\ UNCHANGED <<m_CurrentFrameIndex, m_CurrentFrameBuffer>>
            ELSE \E o \in ReadOutcomes(disk, SeekTarget(m_Reader[1], frame_number),
                                       m_CurrentFrameBuffer) :
                   /\ r_result' = o.res
                   /\ r_io' = o.io
                   /\ r_seek' = SeekTarget(m_Reader[1], frame_number)
                   /\ m_CurrentFrameBuffer' = o.buf
                   /\ IF o.res = "OK"
                        THEN /\ m_CurrentFrameIndex' = frame_number
                             /\ r_State' = "ST_READER_RUNNING"
                             /\ m_Reader' = <<[m_Reader[1] EXCEPT !.pos = o.pos]>>
                        ELSE /\ ReaderReset
                             /\ UNCHANGED m_CurrentFrameIndex
  /\ UNCHANGED wvars
  /\ UNCHANGED xvars

\* ------------------------------------------------- MXFReader::ReadMetadata

\* the caller's inputs of the text-based metadata: two that share a
\* description and differ in MIME type and payload, and one of another
\* description
Text(description, mime, payload) ==
  [description |-> description, mime |-> mime, payload |-> payload]
Texts == {Text("d1", "text/xml", <<61, 62, 63>>),
          Text("d1", "text/plain", <<64>>),
          Text("d2", "text/xml", <<64>>)}
TextDescriptions == {t.description : t \in Texts}
\* text-based sets in one file
MaxTexts == 2

\* WriteMetadata with the caller's inputs drawn from Texts
WriteMetadata_Texts ==
  \E t \in Texts :
    WriteMetadataFrom({t.payload}, {t.description}, {t.mime}, MaxTexts)

RECURSIVE BEValue(_)
\* the value of big-endian bytes
BEValue(bytes) ==
  IF bytes = <<>> THEN 0
  ELSE BEValue(SubSeq(bytes, 1, Len(bytes) - 1)) * 256 + bytes[Len(bytes)]

\* TmpPart.InitFromFile succeeds where a partition pack starts
PartitionAt(file, pos) ==
  /\ Available(file, pos, PartitionPackLen)
  /\ FileBytes(file, pos, PartitionPackLen) = PartitionPackBytes

\* Reader.ReadKLFromFile can be followed where a key and a BER length of
\* MXF_BER_LENGTH bytes start
KLAt(file, pos) ==
  /\ Available(file, pos, SMPTE_UL_LENGTH + MXF_BER_LENGTH)
  /\ FileBytes(file, pos, SMPTE_UL_LENGTH + 1)[SMPTE_UL_LENGTH + 1] = 128 + (MXF_BER_LENGTH - 1)

\* Reader.Length() of the key and length at pos
ReaderLength(file, pos) ==
  BEValue(FileBytes(file, pos + SMPTE_UL_LENGTH + 1, MXF_BER_LENGTH - 1))

\* every pair of a generic stream partition, whatever its BodySID
PairsWith_AnyStream(rip, GSBodySID) ==
  LET idx == {i \in 1..Len(rip) : rip[i].BodySID > 1}
  IN [k \in 1..Cardinality(idx) |->
        rip[CHOOSE i \in idx : Cardinality({j \in idx : j < i}) = k - 1]]

\* the pairs of the RIP the inner loop does not skip, in the order of PairArray
PairsWith(rip, GSBodySID) ==
  LET idx == {i \in 1..Len(rip) : rip[i].BodySID = GSBodySID}
  IN [k \in 1..Cardinality(idx) |->
        rip[CHOOSE i \in idx : Cardinality({j \in idx : j < i}) = k - 1]]

MetaOutcome(res, out, pos, io, seek) ==
  [res |-> res, out |-> out, pos |-> pos, io |-> io, seek |-> seek]

RECURSIVE MetadataOutcomes(_, _, _, _, _, _, _, _)
\* The loop of ReadMetadata over the text-based sets of the header, from the
\* set `sets' starts with: every way the call can end.  A set of another
\* description is passed over; for a matching set mimeType is assigned, and
\* the first pair with its GenericStreamSID is read and ends the inner loop.
MetadataOutcomes(file, rd, sets, description, out, pos, io, seek) ==
  IF sets = <<>> THEN {MetaOutcome("OK", out, pos, io, seek)}
  ELSE
  LET set == Head(sets)
      rest == Tail(sets)
  IN IF set.TextDataDescription /= description
       THEN MetadataOutcomes(file, rd, rest, description, out, pos, io, seek)
       ELSE
       LET out1 == [out EXCEPT !.mimeType = set.TextMIMEMediaType]
           pairs == PairsWith(rd.m_RIP, set.GenericStreamSID)
       IN IF pairs = <<>>
            THEN MetadataOutcomes(file, rd, rest, description, out1, pos, io, seek)
            ELSE
            LET at == pairs[1].ByteOffset
                p1 == at + PartitionPackLen
                p2 == p1 + SMPTE_UL_LENGTH + MXF_BER_LENGTH
                garbled == [out1 EXCEPT !.FrameBuffer = Garbage]
            IN {MetaOutcome("BADSEEK", out1, pos, io + 1, at),
                MetaOutcome("READFAIL", out1, at, io + 2, at)} \cup
               IF ~PartitionAt(file, at) THEN {}
               ELSE
               {MetaOutcome("READFAIL", out1, p1, io + 3, at)} \cup
               IF ~KLAt(file, p1)
                 THEN MetadataOutcomes(file, rd, rest, description, garbled,
                                       p1, io + 4, at)
                 ELSE
                 LET length == ReaderLength(file, p1)
                 IN {MetaOutcome("ALLOC", out1, p2, io + 3, at),
                     MetaOutcome("READFAIL", garbled, p2, io + 4, at)} \cup
                    IF ~Available(file, p2, length)
                      THEN MetadataOutcomes(file, rd, rest, description, garbled,
                                            p2 + length, io + 4, at)
                      ELSE MetadataOutcomes(file, rd, rest, description,
                              [out1 EXCEPT !.FrameBuffer = FileBytes(file, p2, length)],
                              p2 + length, io + 4, at)

\* ReadMetadata has no state test: in ST_READER_BEGIN it calls through the
\* null m_Reader.  An h__Reader that OpenRead left in place has its file open.
ReadMetadata ==
  /\ alive
  /\ WriterDone
  /\ \E description \in TextDescriptions :
       /\ r_call' = Call("ReadMetadata", <<description>>)
       /\ IF m_Reader = NULL
            THEN /\ alive' = FALSE
                 /\ r_result' \in {"SIGABRT", "SIGSEGV"}
                 /\ r_out' = NoOutput
                 /\ r_io' = 0
                 /\ r_seek' = NoSeek
                 /\ UNCHANGED m_Reader
            ELSE \E o \in MetadataOutcomes(disk, m_Reader[1], m_Reader[1].m_Sets,
                                           description, NoOutput,
                                           m_Reader[1].pos, 0, NoSeek) :
                   /\ r_result' = o.res
                   /\ r_out' = o.out
                   /\ r_io' = o.io
                   /\ r_seek' = o.seek
                   /\ m_Reader' = <<[m_Reader[1] EXCEPT !.pos = o.pos]>>
                   /\ UNCHANGED alive
  /\ UNCHANGED <<r_State, m_CurrentFrameIndex, m_CurrentFrameBuffer>>
  /\ UNCHANGED <<m_State, m_Writer, m_ClipStart, m_GenericStreamID, m_NextTrackID,
                 w_call, w_result, w_fault, disk, g>>
  /\ UNCHANGED xvars

\* --------------------------------------------------------------- HMACContext

\* Byte strings of the crypto code are kept symbolic.  SHA-1 is collision
\* free here: a digest is the list of what was hashed, so two digests are
\* equal exactly when the same bytes were hashed.
SHA1_Init == <<>>
SHA1_Update(sha, bytes) == sha \o bytes
SHA1_Final(sha) == [sha1 |-> sha]

\* memset(sha_value, 0, HMAC_SIZE)
ZeroDigest == [sha1 |-> <<>>]

\* m_key[i] ^ pad[i] for i < KeyLen, as one symbol of the hashed string
XorPad(m_key, pad) == [key |-> m_key, pad |-> pad]

\* 128-bit keys, label sets and the buffers given to Update
Keys == {1, 2}
LabelSets == {"LS_MXF_INTEROP", "LS_MXF_SMPTE", "LS_UNKNOWN"}
DataBytes == {1, 2}
Chunks == {<<b>> : b \in DataBytes} \cup {<<a, b>> : a \in DataBytes, b \in DataBytes}

\* h__HMACContext::Reset
h__Reset(ctx) ==
  [ctx EXCEPT !.sha_value = ZeroDigest,
              !.m_Final = FALSE,
              !.m_SHA = SHA1_Update(SHA1_Init, <<XorPad(ctx.m_key, "ipad")>>)]

\* h__HMACContext::SetKey and SetInteropKey: the MIC key is derived from the
\* key, then Reset()
NewHMAC == [m_key |-> [kdf |-> "none", key |-> 0], m_SHA |-> SHA1_Init,
            sha_value |-> ZeroDigest, m_Final |-> FALSE]

h__SetKey(ctx, key) ==
  h__Reset([ctx EXCEPT !.m_key = [kdf |-> "SMPTE 429.6", key |-> key]])

h__SetInteropKey(ctx, key) ==
  h__Reset([ctx EXCEPT !.m_key = [kdf |-> "MXF Interop", key |-> key]])

\* an Update that hashes nothing
h__Update_Drops(ctx, buf) == ctx

\* h__HMACContext::Update
h__Update(ctx, buf) == [ctx EXCEPT !.m_SHA = SHA1_Update(@, buf)]

\* h__HMACContext::Finalize
h__Finalize(ctx) ==
  LET inner == SHA1_Final(ctx.m_SHA)
      SHA == SHA1_Update(SHA1_Update(SHA1_Init, <<XorPad(ctx.m_key, "opad")>>),
                         <<inner>>)
  IN [ctx EXCEPT !.sha_value = SHA1_Final(SHA), !.m_Final = TRUE]

\* the guard shared by Update and Finalize that accepts a finalized context
HMACClosed_NoKeyOnly(ctx) == ctx = NULL

\* m_Context.empty() || m_Context->m_Final
HMACClosed(ctx) == ctx = NULL \/ ctx[1].m_Final

\* m_Context.empty() || ! m_Context->m_Final
HMACUnread(ctx) == ctx = NULL \/ ~ctx[1].m_Final

\* total number of bytes given to Update between two resets of the hash
MaxData == 2

CryptoCall(op, arg, res, out) ==
  /\ c_call' = Call(op, arg)
  /\ c_result' = res
  /\ c_out' = out

\* HMACContext::InitKey
HMAC_InitKey ==
  \E key \in Keys, SetType \in LabelSets :
    /\ IF SetType = "LS_MXF_INTEROP"
         THEN /\ h_Context' = <<h__SetInteropKey(NewHMAC, key)>>
              /\ c_g' = [c_g EXCEPT !.mac = [key |-> key, set |-> SetType, data |-> <<>>]]
              /\ CryptoCall("HMAC.InitKey", <<key, SetType>>, "OK", <<>>)
         ELSE IF SetType = "LS_MXF_SMPTE"
         THEN /\ h_Context' = <<h__SetKey(NewHMAC, key)>>
              /\ c_g' = [c_g EXCEPT !.mac = [key |-> key, set |-> SetType, data |-> <<>>]]
              /\ CryptoCall("HMAC.InitKey", <<key, SetType>>, "OK", <<>>)
         ELSE /\ h_Context' = NULL
              /\ c_g' = [c_g EXCEPT !.mac = NoCrypto.mac]
              /\ CryptoCall("HMAC.InitKey", <<key, SetType>>, "INIT", <<>>)
    /\ UNCHANGED <<e_Context, d_Context>>
    /\ UNCHANGED <<wvars, rvars, kvars>>

\* HMACContext::Reset
HMAC_Reset ==
  /\ IF h_Context /= NULL
       THEN /\ h_Context' = <<h__Reset(h_Context[1])>>
            /\ c_g' = [c_g EXCEPT !.mac.data = <<>>]
       ELSE UNCHANGED <<h_Context, c_g>>
  /\ CryptoCall("HMAC.Reset", NoArg, "OK", <<>>)
  /\ UNCHANGED <<e_Context, d_Context>>
  /\ UNCHANGED <<wvars, rvars, kvars>>

\* HMACContext::Update
HMAC_Update ==
  \E buf \in Chunks :
    /\ IF HMACClosed(h_Context)
         THEN /\ CryptoCall("HMAC.Update", buf, "INIT", <<>>)
              /\ UNCHANGED <<h_Context, c_g>>
         ELSE /\ Len(c_g.mac.data) + Len(buf) <= MaxData
              /\ h_Context' = <<h__Update(h_Context[1], buf)>>
              /\ c_g' = [c_g EXCEPT !.mac.data = @ \o buf]
              /\ CryptoCall("HMAC.Update", buf, "OK", <<>>)
    /\ UNCHANGED <<e_Context, d_Context>>
    /\ UNCHANGED <<wvars, rvars, kvars>>

\* HMACContext::Finalize
HMAC_Finalize ==
  /\ IF HMACClosed(h_Context)
       THEN /\ CryptoCall("HMAC.Finalize", NoArg, "INIT", <<>>)
            /\ UNCHANGED h_Context
       ELSE /\ h_Context' = <<h__Finalize(h_Context[1])>>
            /\ CryptoCall("HMAC.Finalize", NoArg, "OK", <<>>)
  /\ UNCHANGED <<e_Context, d_Context, c_g>>
  /\ UNCHANGED <<wvars, rvars, kvars>>

\* HMACContext::GetHMACValue
HMAC_GetHMACValue ==
  /\ IF HMACUnread(h_Context)
       THEN CryptoCall("HMAC.GetHMACValue", NoArg, "INIT", <<>>)
       ELSE CryptoCall("HMAC.GetHMACValue", NoArg, "OK", <<h_Context[1].sha_value>>)
  /\ UNCHANGED <<e_Context, d_Context, h_Context, c_g>>
  /\ UNCHANGED <<wvars, rvars, kvars>>

\* the MAC a context keyed with `key' under label set `set' gives for `data'
MACOf(key, set, data) ==
  LET keyed == IF set = "LS_MXF_INTEROP" THEN h__SetInteropKey(NewHMAC, key)
                                         ELSE h__SetKey(NewHMAC, key)
  IN h__Finalize(h__Update(keyed, data)).sha_value

\* the preimages whose MACs are offered to TestHMACValue
RECURSIVE SeqsUpTo(_, _)
SeqsUpTo(S, n) ==
  IF n = 0 THEN {<<>>}
  ELSE LET shorter == SeqsUpTo(S, n - 1)
       IN shorter \cup {Append(q, x) : q \in shorter, x \in S}

Preimages == SeqsUpTo(DataBytes, MaxData)

\* memcmp(buf, sha_value, HMAC_SIZE) == 0 ? RESULT_OK : RESULT_HMACFAIL
CompareMAC(buf, sha_value) == IF buf = sha_value THEN "OK" ELSE "HMACFAIL"

\* HMACContext::TestHMACValue; the argument is MACOf(key, set, data)
HMAC_TestHMACValue ==
  \E key \in Keys, set \in {"LS_MXF_INTEROP", "LS_MXF_SMPTE"}, data \in Preimages :
    /\ IF HMACUnread(h_Context)
         THEN CryptoCall("HMAC.TestHMACValue", <<key, set, data>>, "INIT", <<>>)
         ELSE CryptoCall("HMAC.TestHMACValue", <<key, set, data>>,
                         CompareMAC(MACOf(key, set, data), h_Context[1].sha_value),
                         <<>>)
    /\ UNCHANGED <<e_Context, d_Context, h_Context, c_g>>
    /\ UNCHANGED <<wvars, rvars, kvars>>

\* ------------------------------------------ h__HMACContext::SetKey in bytes

\* SetKey with the bytes of the key written out. A BIGNUM is the big-endian
\* byte string of its value without leading zero bytes; 0 is the empty string.
KeyLen == 16
SHA_DIGEST_LENGTH == 20

RECURSIVE StripZeros(_)
StripZeros(bytes) ==
  IF bytes = <<>> THEN <<>>
  ELSE IF bytes[1] = 0 THEN StripZeros(Tail(bytes))
  ELSE bytes

\* the byte string lengthened to n bytes with leading zeros
PadTo(bytes, n) == [i \in 1..n |-> IF i <= n - Len(bytes) THEN 0
                                   ELSE bytes[i - (n - Len(bytes))]]

\* a + b + carry over two strings of n bytes, from the last byte to the
\* first, as a string of n + 1 bytes
RECURSIVE AddFrom(_, _, _, _)
AddFrom(a, b, i, carry) ==
  IF i = 0 THEN <<carry>>
  ELSE LET sum == a[i] + b[i] + carry
       IN AddFrom(a, b, i - 1, sum \div 256) \o <<sum % 256>>

BN_bin2bn(bytes) == StripZeros(bytes)

BN_add(a, b) ==
  LET n == IF Len(a) > Len(b) THEN Len(a) ELSE Len(b)
  IN StripZeros(AddFrom(PadTo(a, n), PadTo(b, n), n, 0))

BN_add_word(a, w) == BN_add(a, StripZeros(<<w>>))

\* BN_mod(r, a, c_2powb) with c_2powb = 2^160: the low 160 bits of a
BN_mod_2powb(a) ==
  IF Len(a) <= SHA_DIGEST_LENGTH THEN a
  ELSE StripZeros(SubSeq(a, Len(a) - SHA_DIGEST_LENGTH + 1, Len(a)))

BN_num_bytes(a) == Len(a)
BN_bn2bin(a) == a

\* memcpy(m_key, sha_buf1, KeyLen) of a digest kept symbolic
Truncated(digest, n) == [first |-> n, of |-> digest]

\* the constant t of SetKey
t_bytes ==
  <<103, 69, 35, 1, 239, 205, 171, 137, 152, 186, 220, 254, 16, 50, 84, 118,
    195, 210, 225, 240>>

\* SetKey from `BN_bin2bn(key, ...)' on; sha_buf0 is the digest of round 1,
\* SHA1(t || key), given as bytes
MICKey(key, sha_buf0) ==
  LET xkey1a == BN_add_word(BN_bin2bn(key), 1)
      x0 == BN_bin2bn(sha_buf0)
      xkey2 == BN_add(xkey1a, x0)
      xkey1 == BN_mod_2powb(xkey2)
      bin_buf_len == BN_num_bytes(xkey1)
      bin_buf == BN_bn2bin(xkey1)
      SHA == SHA1_Update(SHA1_Update(SHA1_Init, t_bytes), SubSeq(bin_buf, 1, bin_buf_len))
      sha_buf1 == SHA1_Final(SHA)
  IN Truncated(sha_buf1, KeyLen)

\* a string of n bytes: its first byte, its last byte, and the bytes between
Pattern(n, first, middle, last) ==
  [i \in 1..n |-> IF i = 1 THEN first ELSE IF i = n THEN last ELSE middle]

\* the keys given to SetKey, and the values tried for the digest of round 1:
\* SHA-1 is not computed, every digest is taken to be possible for every key
KeyBytes == {Pattern(KeyLen, f, m, l) : f \in {0, 255}, m \in {0, 255}, l \in {0, 255}}
Digests == {Pattern(SHA_DIGEST_LENGTH, f, m, l) :
              f \in {0, 1, 255}, m \in {0, 255}, l \in {0, 255}}

\* HMACContext::InitKey(key, LS_MXF_SMPTE) with the bytes written out:
\* SetKey, which ends in Reset()
HMAC_SetKey ==
  \E key \in KeyBytes, sha_buf0 \in Digests :
    /\ h_Context' = <<h__Reset([NewHMAC EXCEPT !.m_key = MICKey(key, sha_buf0)])>>
    /\ c_g' = [c_g EXCEPT !.mac = [key |-> key, set |-> "LS_MXF_SMPTE", data |-> <<>>]]
    /\ CryptoCall("HMAC.SetKey", <<key, sha_buf0>>, "OK", <<>>)
    /\ UNCHANGED <<e_Context, d_Context>>
    /\ UNCHANGED <<wvars, rvars, kvars>>

\* ------------------------------------------------- AESEncContext, AESDecContext

\* blocks encrypted, and blocks decrypted, after one SetIVec
MaxBlocks == 2

\* A CBC block is one symbol of two bits; a buffer is a sequence of blocks.
Blocks == 0..3
IVs == {0, 3}
Xor(a, b) == (((a % 2) + (b % 2)) % 2) + 2 * (((a \div 2) + (b \div 2)) % 2)

\* AES with the schedule of key k is a permutation of the blocks, and
\* AES_decrypt with the schedule of the same key is its inverse
Rijndael == [k \in Keys |-> IF k = 1 THEN <<1, 2, 3, 0>> ELSE <<3, 0, 2, 1>>]
AES_encrypt(sched, x) == Rijndael[sched][x + 1]
AES_decrypt(sched, y) == CHOOSE x \in Blocks : Rijndael[sched][x + 1] = y

BlockSeqs(n) == [1..n -> Blocks]

\* new h__AESContext, then AES_set_encrypt_key / AES_set_decrypt_key: when the
\* key setup fails the schedule is left unwritten; m_IVec is unwritten
\* until SetIVec
NewAES(key, setup_failed) ==
  [sched |-> IF setup_failed THEN Indeterminate ELSE key, m_IVec |-> Indeterminate]

\* an EncryptBlock that chains inside one call only: m_IVec is left as the
\* call found it
RECURSIVE EncryptLoop_KeepsIVec(_, _, _, _)
EncryptLoop_KeepsIVec(sched, ivec, pt, same_buf) ==
  IF pt = <<>> THEN [out |-> <<>>, ivec |-> ivec]
  ELSE LET c == AES_encrypt(sched, Xor(pt[1], ivec))
           rest == EncryptLoop_KeepsIVec(sched, c, Tail(pt), same_buf)
       IN [out |-> <<c>> \o rest.out, ivec |-> ivec]

\* the loop of EncryptBlock from block i on, over the memory of the two
\* buffers: tmp_buf = in_p ^ m_IVec; AES_encrypt(tmp_buf, m_IVec);
\* memcpy(out_p, m_IVec), which also changes block i of the input when
\* ct_buf is pt_buf
RECURSIVE EncryptFrom(_, _, _, _, _, _)
EncryptFrom(sched, ivec, in_mem, out_mem, i, same_buf) ==
  IF i > Len(in_mem) THEN [out |-> out_mem, ivec |-> ivec]
  ELSE LET tmp_buf == Xor(in_mem[i], ivec)
           c == AES_encrypt(sched, tmp_buf)
       IN EncryptFrom(sched, c,
                      IF same_buf THEN [in_mem EXCEPT ![i] = c] ELSE in_mem,
                      Append(out_mem, c), i + 1, same_buf)

EncryptLoop(sched, ivec, pt, same_buf) ==
  EncryptFrom(sched, ivec, pt, <<>>, 1, same_buf)

\* the loop of DecryptBlock: AES_decrypt(in, out); out ^= IVec; then
\* memcpy(IVec, in), which reads the output just written when pt_buf and
\* ct_buf are the same buffer
RECURSIVE DecryptLoop(_, _, _, _)
DecryptLoop(sched, ivec, ct, same_buf) ==
  IF ct = <<>> THEN [out |-> <<>>, ivec |-> ivec]
  ELSE LET p == Xor(AES_decrypt(sched, ct[1]), ivec)
           in_p == IF same_buf THEN p ELSE ct[1]
           rest == DecryptLoop(sched, in_p, Tail(ct), same_buf)
       IN [out |-> <<p>> \o rest.out, ivec |-> rest.ivec]

\* every result the build can give: an unwritten IVec holds some block, and
\* an unwritten schedule makes every output block arbitrary
EncryptOutcomes(ctx, pt, same_buf) ==
  IF ctx.sched = Indeterminate
    THEN {[out |-> o, ivec |-> o[Len(o)]] : o \in BlockSeqs(Len(pt))}
  ELSE IF ctx.m_IVec = Indeterminate
    THEN {EncryptLoop(ctx.sched, v, pt, same_buf) : v \in Blocks}
  ELSE {EncryptLoop(ctx.sched, ctx.m_IVec, pt, same_buf)}

DecryptOutcomes(ctx, ct, same_buf) ==
  IF ctx.sched = Indeterminate
    THEN {[out |-> o, ivec |-> IF same_buf THEN o[Len(o)] ELSE ct[Len(ct)]] :
            o \in BlockSeqs(Len(ct))}
  ELSE IF ctx.m_IVec = Indeterminate
    THEN {DecryptLoop(ctx.sched, v, ct, same_buf) : v \in Blocks}
  ELSE {DecryptLoop(ctx.sched, ctx.m_IVec, ct, same_buf)}

\* a context whose schedule or IVec was never written; the calls on such a
\* context are explored for a single block
Unwritten(ctx) == ctx.sched = Indeterminate \/ ctx.m_IVec = Indeterminate

\* if ( m_Context ) return RESULT_INIT;
InitKeyRefused(ctx) == ctx /= NULL

NewRun(ctx, iv) ==
  [key |-> ctx.sched, iv |-> iv, pt |-> <<>>, ct |-> <<>>, same_buf |-> FALSE]

\* the plaintext blocks the callers encrypt
PlainBlocks == {1, 2}
PlainSeqs == UNION {[1..n -> PlainBlocks] : n \in 1..MaxBlocks}

\* the size of a CBC block in bytes
CBC_BLOCK_SIZE == 16

\* values of block_size that are not a number of whole blocks
BadSizes == {0, CBC_BLOCK_SIZE \div 2}

\* how a call ends that does not return: abort() called by a failed assert,
\* and a loop that runs until it leaves the memory of the process
Aborted == "abort"
NoReturn == "no return"

\* no call has ended the process
ProcessRuns == c_result \notin {Aborted, NoReturn}

\* `while ( block_size )' with block_size -= CBC_BLOCK_SIZE on a ui32_t: the
\* size reaches 0, wrapping or not, exactly when it is a multiple of the
\* block size, 2^32 being one
LoopEnds(block_size) == block_size % CBC_BLOCK_SIZE = 0

\* EncryptBlock and DecryptBlock with a block_size that is not a number of
\* whole blocks. assert() is compiled in or out (NDEBUG) by the build. With
\* it, the call ends in abort(). Without it, the test of m_Context comes
\* first, a size of 0 skips the loop, and any other size starts the loop,
\* which handles a whole block at each turn: it writes the output and
\* m_IVec from bytes beyond the caller's buffers and never sees block_size
\* at 0. outs are the values the first block written can take.
BadSizeOutcomes(ctx, block_size, asserts, outs) ==
  IF asserts
    THEN {[result |-> Aborted, out |-> <<>>, ctx |-> ctx]}
  ELSE IF ctx = NULL
    THEN {[result |-> "INIT", out |-> <<>>, ctx |-> ctx]}
  ELSE IF block_size = 0
    THEN {[result |-> "OK", out |-> <<>>, ctx |-> ctx]}
  ELSE IF LoopEnds(block_size)
    THEN {}
  ELSE {[result |-> NoReturn, out |-> <<o.out>>,
         ctx |-> <<[ctx[1] EXCEPT !.m_IVec = o.ivec]>>] : o \in outs}

\* AESEncContext::InitKey; key_setup_fails is AES_set_encrypt_key returning nonzero
AESEnc_InitKey ==
  \E key \in Keys, key_setup_fails \in BOOLEAN :
    /\ ProcessRuns
    /\ d_Context = NULL
    /\ IF InitKeyRefused(e_Context)
         THEN /\ UNCHANGED <<e_Context, c_g>>
              /\ CryptoCall("AESEnc.InitKey", <<key>>, "INIT", <<>>)
         ELSE /\ e_Context' = <<NewAES(key, key_setup_fails)>>
              /\ c_g' = [c_g EXCEPT !.enc = NoRun]
              /\ CryptoCall("AESEnc.InitKey", <<key>>,
                            IF key_setup_fails THEN "CRYPT_INIT" ELSE "OK", <<>>)
    /\ UNCHANGED <<d_Context, h_Context>>
    /\ UNCHANGED <<wvars, rvars, kvars>>

\* AESEncContext::SetIVec
AESEnc_SetIVec ==
  \E i_vec \in IVs :
    /\ ProcessRuns
    /\ d_Context = NULL
    /\ IF e_Context = NULL
         THEN /\ UNCHANGED <<e_Context, c_g>>
              /\ CryptoCall("AESEnc.SetIVec", <<i_vec>>, "INIT", <<>>)
         ELSE /\ e_Context' = <<[e_Context[1] EXCEPT !.m_IVec = i_vec]>>
              /\ c_g' = [c_g EXCEPT !.enc = NewRun(e_Context[1], i_vec)]
              /\ CryptoCall("AESEnc.SetIVec", <<i_vec>>, "OK", <<>>)
    /\ UNCHANGED <<d_Context, h_Context>>
    /\ UNCHANGED <<wvars, rvars, kvars>>

\* AESEncContext::EncryptBlock, on a buffer of whole blocks; same_buf is
\* ct_buf == pt_buf
AESEnc_EncryptBlock ==
  \E pt_buf \in PlainSeqs, same_buf \in BOOLEAN :
    /\ ProcessRuns
    /\ d_Context = NULL
    /\ IF e_Context = NULL
         THEN /\ Len(pt_buf) = 1
              /\ UNCHANGED <<e_Context, c_g>>
              /\ CryptoCall("AESEnc.EncryptBlock", <<pt_buf, same_buf>>, "INIT", <<>>)
         ELSE /\ Len(c_g.enc.pt) + Len(pt_buf) <= MaxBlocks
              /\ Unwritten(e_Context[1]) => (Len(pt_buf) = 1 /\ c_g.enc.pt = <<>>)
              /\ \E r \in EncryptOutcomes(e_Context[1], pt_buf, same_buf) :
                   /\ e_Context' = <<[e_Context[1] EXCEPT !.m_IVec = r.ivec]>>
                   /\ c_g' = [c_g EXCEPT !.enc.pt = @ \o pt_buf,
                                         !.enc.ct = @ \o r.out]
                   /\ CryptoCall("AESEnc.EncryptBlock", <<pt_buf, same_buf>>, "OK", r.out)
    /\ UNCHANGED <<d_Context, h_Context>>
    /\ UNCHANGED <<wvars, rvars, kvars>>

\* AESDecContext::InitKey; key_setup_fails is AES_set_decrypt_key returning nonzero
AESDec_InitKey ==
  \E key \in Keys, key_setup_fails \in BOOLEAN :
    /\ ProcessRuns
    /\ IF InitKeyRefused(d_Context)
         THEN /\ UNCHANGED <<d_Context, c_g>>
              /\ CryptoCall("AESDec.InitKey", <<key>>, "INIT", <<>>)
         ELSE /\ d_Context' = <<NewAES(key, key_setup_fails)>>
              /\ c_g' = [c_g EXCEPT !.dec = NoRun]
              /\ CryptoCall("AESDec.InitKey", <<key>>,
                            IF key_setup_fails THEN "CRYPT_INIT" ELSE "OK", <<>>)
    /\ UNCHANGED <<e_Context, h_Context>>
    /\ UNCHANGED <<wvars, rvars, kvars>>

\* AESDecContext::SetIVec
AESDec_SetIVec ==
  \E i_vec \in IVs :
    /\ ProcessRuns
    /\ IF d_Context = NULL
         THEN /\ UNCHANGED <<d_Context, c_g>>
              /\ CryptoCall("AESDec.SetIVec", <<i_vec>>, "INIT", <<>>)
         ELSE /\ d_Context' = <<[d_Context[1] EXCEPT !.m_IVec = i_vec]>>
              /\ c_g' = [c_g EXCEPT !.dec = NewRun(d_Context[1], i_vec)]
              /\ CryptoCall("AESDec.SetIVec", <<i_vec>>, "OK", <<>>)
    /\ UNCHANGED <<e_Context, h_Context>>
    /\ UNCHANGED <<wvars, rvars, kvars>>

\* AESDecContext::DecryptBlock, on the next blocks of the ciphertext that
\* the encryptor produced; same_buf is pt_buf == ct_buf
AESDec_DecryptBlock ==
  \E n \in 1..MaxBlocks, same_buf \in BOOLEAN :
    /\ ProcessRuns
    /\ Len(c_g.dec.ct) + n <= Len(c_g.enc.ct)
    /\ LET ct_buf == SubSeq(c_g.enc.ct, Len(c_g.dec.ct) + 1, Len(c_g.dec.ct) + n) IN
       IF d_Context = NULL
         THEN /\ UNCHANGED <<d_Context, c_g>>
              /\ CryptoCall("AESDec.DecryptBlock", <<ct_buf, same_buf>>, "INIT", <<>>)
         ELSE \E r \in DecryptOutcomes(d_Context[1], ct_buf, same_buf) :
                /\ Unwritten(d_Context[1]) => (n = 1 /\ c_g.dec.ct = <<>>)
                /\ d_Context' = <<[d_Context[1] EXCEPT !.m_IVec = r.ivec]>>
                /\ c_g' = [c_g EXCEPT !.dec.ct = @ \o ct_buf,
                                      !.dec.pt = @ \o r.out,
                                      !.dec.same_buf = @ \/ same_buf]
                /\ CryptoCall("AESDec.DecryptBlock", <<ct_buf, same_buf>>, "OK", r.out)
    /\ UNCHANGED <<e_Context, h_Context>>
    /\ UNCHANGED <<wvars, rvars, kvars>>

\* AESEncContext::EncryptBlock with a bad block_size; the block written is
\* also the new m_IVec
AESEnc_EncryptBlock_BadSize ==
  \E block_size \in BadSizes, asserts \in BOOLEAN :
    /\ ProcessRuns
    /\ d_Context = NULL
    /\ \E r \in BadSizeOutcomes(e_Context, block_size, asserts,
                                {[out |-> o, ivec |-> o] : o \in Blocks}) :
         /\ e_Context' = r.ctx
         /\ CryptoCall("AESEnc.EncryptBlock", <<block_size>>, r.result, r.out)
    /\ UNCHANGED <<d_Context, h_Context, c_g>>
    /\ UNCHANGED <<wvars, rvars, kvars>>

\* AESDecContext::DecryptBlock with a bad block_size; m_IVec is copied from
\* the input
AESDec_DecryptBlock_BadSize ==
  \E block_size \in BadSizes, asserts \in BOOLEAN :
    /\ ProcessRuns
    /\ \E r \in BadSizeOutcomes(d_Context, block_size, asserts,
                                {[out |-> o, ivec |-> i] : o \in Blocks, i \in Blocks}) :
         /\ d_Context' = r.ctx
         /\ CryptoCall("AESDec.DecryptBlock", <<block_size>>, r.result, r.out)
    /\ UNCHANGED <<e_Context, h_Context, c_g>>
    /\ UNCHANGED <<wvars, rvars, kvars>>

\* ------------------------------------------------------ ASDCP::h__Reader

\* A file is a sequence of cells; a file position is the number of cells
\* before it. A key and a BER length take one cell each, a value byte one.
Cell(t, v) == [t |-> t, v |-> v]

HeaderPartition == <<Cell("Header", 0), Cell("Header", 0)>>
BodyPartition == <<Cell("Body", 0)>>
FooterPartition == <<Cell("Footer", 0)>>
Fill == <<Cell("Fill", 0)>>

\* header_length = SMPTE_UL_LENGTH + MXF_BER_LENGTH, in cells
KLLength == 2

ValueBytes(bytes) == [i \in 1..Len(bytes) |-> Cell("B", bytes[i])]

\* the ciphertext length of a frame of SourceLength bytes: the source
\* rounded up to the next whole block
calc_esv_length(SourceLength) == SourceLength + 1

\* a plaintext essence packet, and an encrypted triplet whose first value
\* cell stands for the context ID, plaintext offset, essence UL and source
\* length items that precede the encrypted source value
PlainPacket(payload) ==
  <<Cell("K_Essence", 0), Cell("L", Len(payload))>> \o ValueBytes(payload)
EncPacket(SourceLength, esv) ==
  <<Cell("K_CryptEssence", 0), Cell("L", 1 + Len(esv)), Cell("SourceLength", SourceLength)>>
     \o ValueBytes(esv)

\* a packet whose length field says k cells more than its value has
Overstated(packet, k) == [packet EXCEPT ![2].v = @ + k]

PlainPackets == <<PlainPacket(<<7, 8>>), PlainPacket(<<9>>), PlainPacket(<<7>>)>>
EncPackets == <<EncPacket(1, <<5, 6>>), EncPacket(2, <<6, 5, 6>>)>>

RECURSIVE Concat(_)
Concat(ss) == IF ss = <<>> THEN <<>> ELSE Head(ss) \o Concat(Tail(ss))

\* the stream offsets of the index table: packet i starts where the
\* packets before it end
StreamOffsets(packets) ==
  [i \in 1..Len(packets) |-> Len(Concat(SubSeq(packets, 1, i - 1)))]

\* A file: header partition, the cells between it and the essence (the last
\* of them is where the RIP says the body partition is, when the RIP has
\* more than two pairs), the essence packets, a further partition when the
\* RIP has four pairs, and the footer. The fields packets and essence record
\* what the file was made of and where its essence starts.
MXFFile(packets, pairs, between, encrypted) ==
  LET pre == HeaderPartition \o between
      essence == Concat(packets)
      post == (IF pairs = 4 THEN BodyPartition ELSE <<>>) \o FooterPartition
      cells == pre \o essence \o post
      footer == Len(cells) - Len(FooterPartition)
  IN [cells |-> cells,
      rip |-> IF pairs = 2 THEN <<0, footer>>
              ELSE IF pairs = 3 THEN <<0, Len(pre) - 1, footer>>
              ELSE <<0, Len(pre) - 1, Len(pre) + Len(essence), footer>>,
      index |-> StreamOffsets(packets),
      packets |-> packets,
      essence |-> Len(pre),
      EncryptedEssence |-> encrypted]

Files ==
  { MXFFile(PlainPackets, 2, <<>>, FALSE),
    MXFFile(PlainPackets, 3, BodyPartition, FALSE),
    MXFFile(PlainPackets, 3, Fill \o BodyPartition, FALSE),
    MXFFile(PlainPackets, 3, Fill, FALSE),
    MXFFile(PlainPackets, 4, BodyPartition, FALSE),
    MXFFile(EncPackets, 2, <<>>, TRUE),
    MXFFile(<<PlainPacket(<<7, 8>>), Overstated(PlainPacket(<<9>>), 3)>>, 2, <<>>, FALSE),
    MXFFile(<<EncPacket(1, <<5, 6>>), Overstated(EncPacket(2, <<6, 5, 6>>), 3)>>,
            2, <<>>, TRUE) }

\* FrameBuf.Capacity() of the caller's buffer
Capacities == {1, 8}

NoOpenFile == <<>>

\* h__Reader::h__Reader sets m_EssenceStart alone
NewReader ==
  [m_EssenceStart |-> 0, m_LastPosition |-> Indeterminate,
   m_FooterPart |-> <<>>, EncryptedEssence |-> FALSE]

\* Partition::InitFromFile on m_BodyPart: a partition pack is accepted where
\* one starts, and the position moves past what was read
BodyInitFromFile(file, pos) ==
  IF pos < Len(file.cells) /\ file.cells[pos + 1].t = "Body"
    THEN [result |-> "OK", pos |-> pos + Len(BodyPartition)]
    ELSE [result |-> "FAIL", pos |-> IF pos < Len(file.cells) THEN pos + 1 ELSE pos]

KCall(op, arg, res, out) ==
  /\ k_call' = Call(op, arg)
  /\ k_result' = res
  /\ k_out' = out

\* h__Reader::OpenMXFRead; seek_fails is m_File.Seek to the body partition
\* returning an error, which leaves the position where it was. The call
\* record keeps the position m_BodyPart.InitFromFile read from, if it ran.
OpenMXFRead ==
  \E file \in Files, seek_fails \in BOOLEAN :
    /\ k_File = NoOpenFile
    /\ seek_fails => Len(file.rip) = 3
    /\ LET header_end == Len(HeaderPartition)
           body_at == IF Len(file.rip) /= 3 THEN Indeterminate
                      ELSE IF seek_fails THEN header_end ELSE file.rip[2]
           body == IF Len(file.rip) = 3
                     THEN BodyInitFromFile(file, body_at)
                     ELSE [result |-> "OK", pos |-> header_end]
       IN /\ k_File' = <<[file |-> file, pos |-> body.pos]>>
          /\ k_Reader' = [k_Reader EXCEPT !.m_LastPosition = 0,
                                          !.m_EssenceStart = body.pos]
          /\ k_call' = [op |-> "OpenMXFRead", arg |-> <<Len(file.rip), seek_fails>>,
                        body_at |-> body_at]
          /\ k_result' = body.result
          /\ k_out' = <<>>
    /\ UNCHANGED <<wvars, rvars, cvars>>

\* h__Reader::InitInfo, as far as ReadEKLVPacket depends on it
InitInfo ==
  /\ k_File /= NoOpenFile
  /\ k_Reader' = [k_Reader EXCEPT !.EncryptedEssence = k_File[1].file.EncryptedEssence]
  /\ KCall("InitInfo", NoArg, "OK", <<>>)
  /\ UNCHANGED k_File
  /\ UNCHANGED <<wvars, rvars, cvars>>

\* h__Reader::InitMXFIndex
InitMXFIndex ==
  /\ IF k_File = NoOpenFile
       THEN /\ KCall("InitMXFIndex", NoArg, "INIT", <<>>)
            /\ UNCHANGED <<k_File, k_Reader>>
       ELSE /\ k_Reader' = [k_Reader EXCEPT !.m_FooterPart = k_File[1].file.index]
            /\ k_File' = <<[k_File[1] EXCEPT !.pos = k_Reader.m_EssenceStart]>>
            /\ KCall("InitMXFIndex", NoArg, "OK", <<>>)
  /\ UNCHANGED <<wvars, rvars, cvars>>

\* read_count != header_length in KLReader::ReadKLFromFile
ShortKLResult == "READFAIL"

\* an encrypted value read that answers a short read as the plaintext one does
ShortEncryptedResult_ReadFail == "READFAIL"

\* read_count != PacketLength after the Read into m_CtFrameBuf
ShortEncryptedResult == "FORMAT"

\* read_count != PacketLength after the Read into FrameBuf
ShortPlaintextResult == "READFAIL"

\* What one ReadEKLVPacket call does, with no decryption context: the result,
\* the data delivered, the file position and m_LastPosition it leaves, and
\* the position the key and length were read from, and which of its reads, if
\* any, got fewer cells than it asked for.
EKLVOutcome(file, pos, rd, FrameNum, Capacity) ==
  LET cells == file.cells
      FilePosition == rd.m_EssenceStart + rd.m_FooterPart[FrameNum + 1]
      seeks == FilePosition /= rd.m_LastPosition
      pos1 == IF seeks THEN FilePosition ELSE pos
      last1 == IF seeks THEN FilePosition ELSE rd.m_LastPosition
      Out(res, data, p, last, short) ==
        [result |-> res, data |-> data, pos |-> p, last |-> last, kl_pos |-> pos1,
         short |-> short]
  IN IF Len(cells) - pos1 < KLLength
       THEN Out(ShortKLResult, <<>>, Len(cells), last1, "KL")
     ELSE LET Key == cells[pos1 + 1]
              pos2 == pos1 + KLLength
          IN IF ~(Key.t \in {"K_Essence", "K_CryptEssence"} /\ cells[pos1 + 2].t = "L")
               THEN Out("FAIL", <<>>, pos2, last1, "none")
             ELSE LET PacketLength == cells[pos1 + 2].v
                      last2 == last1 + KLLength + PacketLength
                      avail == Len(cells) - pos2
                      value == SubSeq(cells, pos2 + 1, pos2 + PacketLength)
                  IN IF Key.t = "K_CryptEssence"
                       THEN IF ~rd.EncryptedEssence
                              THEN Out("FORMAT", <<>>, pos2, last2, "none")
                            ELSE IF avail < PacketLength
                              THEN Out(ShortEncryptedResult, <<>>, Len(cells), last2, "encrypted")
                            ELSE IF value[1].t /= "SourceLength"
                              THEN Out("FORMAT", <<>>, pos2 + PacketLength, last2, "none")
                            ELSE IF Capacity < value[1].v
                              THEN Out("SMALLBUF", <<>>, pos2 + PacketLength, last2, "none")
                            ELSE IF PacketLength - 1 /= calc_esv_length(value[1].v)
                              THEN Out("FORMAT", <<>>, pos2 + PacketLength, last2, "none")
                            ELSE IF Capacity < calc_esv_length(value[1].v)
                              THEN Out("SMALLBUF", <<>>, pos2 + PacketLength, last2, "none")
                            ELSE Out("OK", Tail(value), pos2 + PacketLength, last2, "none")
                       ELSE IF Capacity < PacketLength
                              THEN Out("SMALLBUF", <<>>, pos2, last2, "none")
                            ELSE IF avail < PacketLength
                              THEN Out(ShortPlaintextResult, <<>>, Len(cells), last2, "plaintext")
                            ELSE Out("OK", value, pos2 + PacketLength, last2, "none")

\* h__Reader::ReadEKLVPacket(FrameNum, FrameBuf, EssenceUL, 0, 0)
ReadEKLVPacket ==
  \E FrameNum \in 0..Len(PlainPackets), Capacity \in Capacities :
    /\ IF FrameNum >= Len(k_Reader.m_FooterPart)
         THEN /\ k_call' = [op |-> "ReadEKLVPacket", arg |-> <<FrameNum, Capacity>>,
                            kl_pos |-> Indeterminate, short |-> "none"]
              /\ k_result' = "RANGE"
              /\ k_out' = <<>>
              /\ UNCHANGED <<k_File, k_Reader>>
         ELSE LET r == EKLVOutcome(k_File[1].file, k_File[1].pos, k_Reader, FrameNum, Capacity)
              IN /\ k_File' = <<[k_File[1] EXCEPT !.pos = r.pos]>>
                 /\ k_Reader' = [k_Reader EXCEPT !.m_LastPosition = r.last]
                 /\ k_call' = [op |-> "ReadEKLVPacket", arg |-> <<FrameNum, Capacity>>,
                               kl_pos |-> r.kl_pos, short |-> r.short]
                 /\ k_result' = r.result
                 /\ k_out' = r.data
    /\ UNCHANGED <<wvars, rvars, cvars>>

\* ------------------------------------------------------------- accessors

\* the result recorded for a call that ended by throwing Kumu::RuntimeError
\* to its caller instead of returning
Thrown == "throw RuntimeError(INIT)"

\* MXFWriter::OP1aHeader() const: throws in ST_BEGIN, else returns a reference
WriterOP1aHeader ==
  /\ alive
  /\ WriterLive
  /\ w_call' = Call("OP1aHeader", NoArg)
  /\ w_result' = IF m_State = "ST_BEGIN" THEN Thrown ELSE "OK"
  /\ w_fault' = "none"
  /\ UNCHANGED <<m_State, m_Writer, m_ClipStart, m_GenericStreamID,
                 m_NextTrackID, alive, disk, g>>
  /\ UNCHANGED rvars
  /\ UNCHANGED xvars

\* MXFWriter::RIP() const
WriterRIP ==
  /\ alive
  /\ WriterLive
  /\ w_call' = Call("RIP", NoArg)
  /\ w_result' = IF m_State = "ST_BEGIN" THEN Thrown ELSE "OK"
  /\ w_fault' = "none"
  /\ UNCHANGED <<m_State, m_Writer, m_ClipStart, m_GenericStreamID,
                 m_NextTrackID, alive, disk, g>>
  /\ UNCHANGED rvars
  /\ UNCHANGED xvars

\* MXFReader::OP1aHeader() const
ReaderOP1aHeader ==
  /\ alive
  /\ WriterDone
  /\ r_call' = Call("OP1aHeader", NoArg)
  /\ r_out' = NoOutput
  /\ r_result' = IF r_State = "ST_READER_BEGIN" THEN Thrown ELSE "OK"
  /\ r_io' = 0
  /\ r_seek' = NoSeek
  /\ UNCHANGED <<r_State, m_Reader, m_CurrentFrameIndex, m_CurrentFrameBuffer>>
  /\ UNCHANGED wvars
  /\ UNCHANGED xvars

\* MXFReader::RIP() const
ReaderRIP ==
  /\ alive
  /\ WriterDone
  /\ r_call' = Call("RIP", NoArg)
  /\ r_out' = NoOutput
  /\ r_result' = IF r_State = "ST_READER_BEGIN" THEN Thrown ELSE "OK"
  /\ r_io' = 0
  /\ r_seek' = NoSeek
  /\ UNCHANGED <<r_State, m_Reader, m_CurrentFrameIndex, m_CurrentFrameBuffer>>
  /\ UNCHANGED wvars
  /\ UNCHANGED xvars

\* ------------------------------------------------------------ the system

Init ==
  /\ m_State = "ST_BEGIN"
  /\ m_Writer = NULL
  /\ m_ClipStart = 0
  /\ m_GenericStreamID = 2
  /\ m_NextTrackID = 2
  /\ w_call = Call("new", NoArg)
  /\ w_result = "OK"
  /\ w_fault = "none"
  /\ alive = TRUE
  /\ disk = NoFile
  /\ g = NoHistory
  /\ r_State = "ST_READER_BEGIN"
  /\ m_Reader = NULL
  /\ m_CurrentFrameIndex = Uninitialized
  /\ m_CurrentFrameBuffer = <<>>
  /\ r_call = Call("new", NoArg)
  /\ r_result = "OK"
  /\ r_io = 0
  /\ r_seek = NoSeek
  /\ r_out = NoOutput
  /\ e_Context = NULL
  /\ d_Context = NULL
  /\ h_Context = NULL
  /\ c_call = Call("new", NoArg)
  /\ c_result = "OK"
  /\ c_out = <<>>
  /\ c_g = NoCrypto
  /\ k_File = NoOpenFile
  /\ k_Reader = NewReader
  /\ k_call = Call("new", NoArg)
  /\ k_result = "OK"
  /\ k_out = <<>>

Next ==
  \/ OpenWrite
  \/ WriteFrame
  \/ FinalizeClip
  \/ FinalizeMxf
  \/ WriteMetadata
  \/ DestroyWriter
  \/ OpenRead
  \/ ReadFrame
  \/ GetFrameCount
  \/ Close

Spec == Init /\ [][Next]_vars

\* The accessors, driven together with the calls that open and close the
\* writer and the reader.
NextAccessors ==
  \/ OpenWrite
  \/ WriteFrame
  \/ FinalizeClip
  \/ FinalizeMxf
  \/ DestroyWriter
  \/ OpenRead
  \/ GetFrameCount
  \/ Close
  \/ WriterOP1aHeader
  \/ WriterRIP
  \/ ReaderOP1aHeader
  \/ ReaderRIP

SpecAccessors == Init /\ [][NextAccessors]_vars

NextOpenRead ==
  \/ OpenWrite
  \/ WriteFrame
  \/ FinalizeClip
  \/ FinalizeMxf
  \/ DestroyWriter
  \/ OtherProducer
  \/ OpenRead
  \/ GetFrameCount
  \/ Close

SpecOpenRead == Init /\ [][NextOpenRead]_vars

NextHMAC ==
  \/ HMAC_InitKey
  \/ HMAC_Reset
  \/ HMAC_Update
  \/ HMAC_Finalize
  \/ HMAC_GetHMACValue
  \/ HMAC_TestHMACValue

SpecHMAC == Init /\ [][NextHMAC]_vars

\* the MIC key derivation on key bytes, and the contexts it keys
NextSetKey ==
  \/ HMAC_SetKey
  \/ HMAC_Finalize
  \/ HMAC_GetHMACValue

SpecSetKey == Init /\ [][NextSetKey]_vars

NextMetadata ==
  \/ OpenWrite
  \/ WriteMetadata_Texts
  \/ FinalizeMxf
  \/ DestroyWriter
  \/ OpenRead
  \/ ReadMetadata
  \/ Close

SpecMetadata == Init /\ [][NextMetadata]_vars

NextAES ==
  \/ AESEnc_InitKey
  \/ AESEnc_SetIVec
  \/ AESEnc_EncryptBlock
  \/ AESDec_InitKey
  \/ AESDec_SetIVec
  \/ AESDec_DecryptBlock

SpecAES == Init /\ [][NextAES]_vars

\* the two contexts called with sizes of every kind
NextAESSizes ==
  \/ AESEnc_InitKey
  \/ AESEnc_SetIVec
  \/ AESEnc_EncryptBlock
  \/ AESEnc_EncryptBlock_BadSize
  \/ AESDec_InitKey
  \/ AESDec_SetIVec
  \/ AESDec_DecryptBlock
  \/ AESDec_DecryptBlock_BadSize

SpecAESSizes == Init /\ [][NextAESSizes]_vars

NextMXFRead ==
  \/ OpenMXFRead
  \/ InitInfo
  \/ InitMXFIndex
  \/ ReadEKLVPacket

SpecMXFRead == Init /\ [][NextMXFRead]_vars

TypeOK ==
  /\ m_State \in {"ST_BEGIN", "ST_READY", "ST_RUNNING"}
  /\ r_State \in {"ST_READER_BEGIN", "ST_READER_READY", "ST_READER_RUNNING"}
  /\ Len(m_Writer) <= 1
  /\ Len(m_Reader) <= 1


\* ------------------------------------------------- vocabulary of the claims

RECURSIVE FramesOf(_)
\* the frames of a session history, in the order they were written
FramesOf(h) ==
  IF h = <<>> THEN <<>>
  ELSE IF Head(h)[1] = "F" THEN <<Head(h)[2]>> \o FramesOf(Tail(h))
  ELSE FramesOf(Tail(h))

OnlyFrames(h) == \A i \in 1..Len(h) : h[i][1] = "F"

\* tag, be32 P, P bytes, tag, be32 F, F bytes, and nothing else
WellFormed(f) ==
  /\ Len(f) >= preambleTLLen + frameTLLen
  /\ LET P == f[2] * 16777216 + f[3] * 65536 + f[4] * 256 + f[5]
     IN /\ Len(f) >= preambleTLLen + P + frameTLLen
        /\ LET q == preambleTLLen + P
               F == f[q + 2] * 16777216 + f[q + 3] * 65536 + f[q + 4] * 256 + f[q + 5]
           IN Len(f) = q + frameTLLen + F

RECURSIVE EntriesFrom(_, _)
\* the index a history produces when the first byte written lies `off' bytes
\* after the origin of the offsets
EntriesFrom(h, off) ==
  IF h = <<>> THEN <<>>
  ELSE IF Head(h)[1] = "F"
         THEN <<off>> \o EntriesFrom(Tail(h), off + Len(Head(h)[2]))
         ELSE EntriesFrom(Tail(h), off + 16 + 4 + Len(Head(h)[2]))

\* the file was produced by OpenWrite, WriteFrame*, FinalizeClip, FinalizeMxf:
\* no WriteMetadata was called, its clip length is the length of the frames,
\* and it has its footer
ClipLengthOnDisk == SubSeq(disk.body, 17, 24)

CleanFile ==
  /\ disk.exists /\ disk.hdr /\ disk.footer /= <<>>
  /\ disk.footer[1].sets = <<>>
  /\ OnlyFrames(g)
  /\ ClipLengthOnDisk = <<135>> \o BEBytes(SumSizes(FramesOf(g)), 7)

FrameRead == r_call.op = "ReadFrame" /\ r_call.arg[1] < Len(FramesOf(g))

CountIsN ==
  (r_call.op = "GetFrameCount" /\ r_result = "OK")
     => GetDuration(m_Reader[1]) = Len(FramesOf(g))

WriterOpen == m_Writer /= NULL

C3_ClipLengthBackPatch ==
  [][(w_call'.op = "FinalizeClip" /\ w_result' = "OK") =>
        /\ disk'.body = FileWrite(disk.body, m_ClipStart + 16,
                                  <<135>> \o BEBytes(SumSizes(FramesOf(g)), 7))
        /\ m_Writer'[1].pos = m_Writer[1].pos]_vars

\* C4: in every writer state other than BEGIN, stream_offset - 24 is the sum
\* of the sizes of the frames written since OpenWrite.
C4_StreamOffsetIsFrameBytes ==
  m_State /= "ST_BEGIN" =>
     m_Writer[1].m_StreamOffset - 24 = SumSizes(FramesOf(g))

\* C5 (as stated): for every pair of frames i < j the recorded offsets are
\* strictly increasing, whatever sizes WriteFrame accepted.
C5_StrictlyIncreasingIndex ==
  WriterOpen =>
    \A i, j \in 1..Len(m_Writer[1].m_IndexWriter) :
       i < j => m_Writer[1].m_IndexWriter[i] < m_Writer[1].m_IndexWriter[j]

\* C5 (amended): for i < j the recorded offsets never decrease, and they
\* increase strictly when some frame i .. j-1 has a size other than 0.
C5_NonDecreasingIndex ==
  WriterOpen =>
    \A i, j \in 1..Len(m_Writer[1].m_IndexWriter) :
       i < j =>
         /\ m_Writer[1].m_IndexWriter[i] <= m_Writer[1].m_IndexWriter[j]
         /\ SumSizes(SubSeq(FramesOf(g), i, j - 1)) > 0 =>
              m_Writer[1].m_IndexWriter[i] < m_Writer[1].m_IndexWriter[j]

C5_Witness ==
  /\ WriterOpen
  /\ g = <<<<"F", FrameE>>, <<"F", FrameA>>>>
  /\ m_Writer[1].m_IndexWriter[1] = m_Writer[1].m_IndexWriter[2]


ReaderOpen == r_State /= "ST_READER_BEGIN"

\* C6: ReadFrame(N) with N >= frame_count on an open reader returns RANGE and
\* leaves the reader's state, cached index, cached buffer and file as they were.
C6_RangeLeavesReaderUsable ==
  [][(r_call'.op = "ReadFrame" /\ ReaderOpen
        /\ r_call'.arg[1] >= GetDuration(m_Reader[1])) =>
        /\ r_result' = "RANGE"
        /\ UNCHANGED <<r_State, m_Reader, m_CurrentFrameIndex,
                       m_CurrentFrameBuffer>>]_vars

\* the cached index names a frame of the file and the cached buffer is what an
\* uncached read of that frame delivers
CacheHoldsFrame ==
  /\ m_CurrentFrameIndex >= 0
  /\ m_CurrentFrameIndex < GetDuration(m_Reader[1])
  /\ \E o \in ReadOutcomes(disk, Lookup(m_Reader[1], m_CurrentFrameIndex), <<>>) :
        o.res = "OK" /\ o.buf = m_CurrentFrameBuffer

CacheIndexAssigned ==
  /\ ReaderOpen => (m_CurrentFrameIndex = -1 \/ CacheHoldsFrame)
  /\ (r_call.op = "OpenRead" /\ r_result = "OK") => m_CurrentFrameIndex = -1

\* C7: of two successive successful ReadFrame(k) calls the second performs no
\* file operation and hands back the same buffer; a frame counts as cached only
\* when its bytes are in the buffer, never right after OpenRead.
C7_FrameCache ==
  /\ []CacheIndexAssigned
  /\ [][(r_call.op = "ReadFrame" /\ r_result = "OK" /\ r_call' = r_call) =>
          /\ r_result' = "OK"
          /\ r_io' = 0
          /\ UNCHANGED <<m_Reader, m_CurrentFrameIndex, m_CurrentFrameBuffer>>]_vars

C7_Witness ==
  /\ r_call = Call("ReadFrame", <<1>>)
  /\ r_result = "OK"
  /\ r_io = 0
  /\ m_CurrentFrameIndex = 1
  /\ m_CurrentFrameBuffer = FrameB

\* C8: WriteFrame in state BEGIN returns INIT, OpenWrite in state READY or
\* RUNNING returns STATE, and neither changes the writer or the file.
C8_WriterMisuseCodes ==
  [][/\ (w_call'.op = "WriteFrame" /\ m_State = "ST_BEGIN") =>
          /\ w_result' = "INIT"
          /\ UNCHANGED <<m_State, m_Writer, m_ClipStart, disk>>
     /\ (w_call'.op = "OpenWrite" /\ m_State \in {"ST_READY", "ST_RUNNING"}) =>
          /\ w_result' = "STATE"
          /\ UNCHANGED <<m_State, m_Writer, m_ClipStart, disk>>]_vars

C8_Witness ==
  /\ w_call.op = "OpenWrite"
  /\ w_result = "STATE"
  /\ m_State = "ST_RUNNING"
  /\ m_Writer[1].m_IndexWriter = <<24>>

\* C9: WriteFrame, FinalizeClip, FinalizeMxf and WriteMetadata called in state
\* BEGIN return STATE or INIT and do nothing else.
C9_ForbiddenCallsReturnCodes ==
  [][(m_State = "ST_BEGIN"
        /\ w_call'.op \in {"WriteFrame", "FinalizeClip", "FinalizeMxf", "WriteMetadata"}) =>
        /\ w_result' \in {"STATE", "INIT"}
        /\ UNCHANGED <<m_State, m_Writer, alive, disk>>]_vars

\* C10: when a file operation inside OpenWrite, WriteFrame or FinalizeClip
\* fails, the call returns an error and the writer is in BEGIN with its
\* internal writer released.
C10_FailureResetsWriter ==
  (w_call.op \in {"OpenWrite", "WriteFrame", "FinalizeClip"} /\ w_fault /= "none") =>
     /\ w_result /= "OK"
     /\ m_State = "ST_BEGIN"
     /\ m_Writer = NULL

\* C11: FinalizeMxf on an open writer leaves the writer in BEGIN with m_Writer
\* released, whether or not the footer was written, and returns the footer
\* write's result; an OpenWrite that follows it is not refused with STATE.
C11_FinalizeMxfAlwaysResets ==
  [][/\ (w_call'.op = "FinalizeMxf" /\ m_Writer /= NULL) =>
          /\ m_State' = "ST_BEGIN"
          /\ m_Writer' = NULL
          /\ w_result' = (IF w_fault' = "none" THEN "OK" ELSE "WRITEFAIL")
     /\ (w_call.op = "FinalizeMxf" /\ w_call'.op = "OpenWrite") =>
          w_result' /= "STATE"]_vars

C11_Witness ==
  /\ w_call.op = "FinalizeMxf"
  /\ w_result = "WRITEFAIL"
  /\ w_fault = "write"
  /\ m_State = "ST_BEGIN"
  /\ m_Writer = NULL

\* C12: no public operation of MXFWriter or MXFReader, the accessors
\* OP1aHeader() and RIP() included, ends by throwing to its caller: every
\* call returns.
C12_NoExceptionEscapes ==
  /\ w_result /= Thrown
  /\ r_result /= Thrown

\* C13: on an HMACContext, Update and Finalize return INIT when no key was
\* initialised or the context is already finalized, GetHMACValue and
\* TestHMACValue return INIT before Finalize, and such a rejected call leaves
\* the running hash, the final flag and the digest as they were.
C13_HMACStateMachine ==
  [][/\ (/\ c_call'.op \in {"HMAC.Update", "HMAC.Finalize"}
         /\ (h_Context = NULL \/ h_Context[1].m_Final)) =>
            (c_result' = "INIT" /\ h_Context' = h_Context)
     /\ (/\ c_call'.op \in {"HMAC.GetHMACValue", "HMAC.TestHMACValue"}
         /\ (h_Context = NULL \/ ~h_Context[1].m_Final)) =>
            (c_result' = "INIT" /\ h_Context' = h_Context)]_vars

C13_Witness ==
  /\ c_call.op = "HMAC.Finalize"
  /\ c_result = "INIT"
  /\ h_Context /= NULL
  /\ h_Context[1].m_Final
  /\ c_g.mac.data = <<1, 2>>

\* C14: on a context keyed with K that was fed the preimage D and finalized,
\* TestHMACValue(m) returns OK when m is the MAC of the same key and label
\* set over D, and HMACFAIL when m is the MAC over a preimage other than D;
\* the test changes neither the digest nor the final flag of the context.
C14_HMACIntegrity ==
  /\ [](( /\ c_call.op = "HMAC.TestHMACValue"
          /\ h_Context /= NULL
          /\ h_Context[1].m_Final
          /\ c_call.arg[1] = c_g.mac.key
          /\ c_call.arg[2] = c_g.mac.set) =>
             c_result = (IF c_call.arg[3] = c_g.mac.data THEN "OK" ELSE "HMACFAIL"))
  /\ [][c_call'.op = "HMAC.TestHMACValue" => h_Context' = h_Context]_vars

C14_Witness ==
  /\ c_call.op = "HMAC.TestHMACValue"
  /\ c_result = "HMACFAIL"
  /\ h_Context /= NULL
  /\ h_Context[1].m_Final
  /\ c_call.arg[1] = c_g.mac.key
  /\ c_call.arg[2] = c_g.mac.set
  /\ c_call.arg[3] = <<1, 1>>
  /\ c_g.mac.data = <<1, 2>>


\* an encryptor and a decryptor that were given the same key and the same IV,
\* the decryptor having consumed some of the encryptor's ciphertext
SameKeyAndIV ==
  /\ c_g.enc.key \in Keys
  /\ c_g.dec.key = c_g.enc.key
  /\ c_g.enc.iv \in Blocks
  /\ c_g.dec.iv = c_g.enc.iv
  /\ c_g.dec.ct /= <<>>

\* C15: AES-CBC round trip: after InitKey(K), SetIVec(V) on both contexts, the
\* plaintext that DecryptBlock returns for the encryptor's ciphertext is the
\* plaintext that was given to EncryptBlock, for one or several blocks and in
\* one or several calls.
C15_RoundTrip ==
  SameKeyAndIV => c_g.dec.pt = SubSeq(c_g.enc.pt, 1, Len(c_g.dec.ct))

\* the round trip when no DecryptBlock call was given one buffer as both
\* ct_buf and pt_buf
RoundTripSeparateBuffers ==
  (SameKeyAndIV /\ ~c_g.dec.same_buf) =>
     c_g.dec.pt = SubSeq(c_g.enc.pt, 1, Len(c_g.dec.ct))

\* the round trip of a single block decrypted in place
RoundTripFirstBlock ==
  SameKeyAndIV => c_g.dec.pt[1] = c_g.enc.pt[1]


\* the last call was an InitKey whose key schedule setup failed
EncKeySetupFailed == c_call.op = "AESEnc.InitKey" /\ c_result = "CRYPT_INIT"
DecKeySetupFailed == c_call.op = "AESDec.InitKey" /\ c_result = "CRYPT_INIT"

\* C16: an InitKey whose key schedule setup fails returns CRYPT_INIT and
\* leaves the object without a context: the next SetIVec, EncryptBlock or
\* DecryptBlock on that object returns INIT and the next InitKey is not
\* refused with INIT.
C16_FailedInitKeyHoldsNoContext ==
  [][/\ EncKeySetupFailed' => e_Context' = NULL
     /\ DecKeySetupFailed' => d_Context' = NULL
     /\ (EncKeySetupFailed /\ c_call'.op \in {"AESEnc.SetIVec", "AESEnc.EncryptBlock"}) =>
           c_result' = "INIT"
     /\ (DecKeySetupFailed /\ c_call'.op \in {"AESDec.SetIVec", "AESDec.DecryptBlock"}) =>
           c_result' = "INIT"
     /\ (EncKeySetupFailed /\ c_call'.op = "AESEnc.InitKey") => c_result' /= "INIT"
     /\ (DecKeySetupFailed /\ c_call'.op = "AESDec.InitKey") => c_result' /= "INIT"]_vars

\* the part of C16 about the result code alone: a refused InitKey is
\* answered INIT and never CRYPT_INIT
KeySetupFailureCode ==
  [][/\ (c_call'.op = "AESEnc.InitKey" /\ e_Context /= NULL) => c_result' = "INIT"
     /\ (c_call'.op = "AESDec.InitKey" /\ d_Context /= NULL) => c_result' = "INIT"]_vars


\* the frames of the open file, as ReadEKLVPacket delivers them with no
\* decryption context: the value of a plaintext packet, the encrypted source
\* value of an encrypted one
FrameBytes(file, FrameNum) ==
  LET packet == file.packets[FrameNum + 1]
  IN IF file.EncryptedEssence THEN SubSeq(packet, KLLength + 2, Len(packet))
     ELSE SubSeq(packet, KLLength + 1, Len(packet))

\* every packet of the file has the value its length field announces
WholePackets(file) ==
  \A i \in 1..Len(file.packets) :
     file.packets[i][2].v = Len(file.packets[i]) - KLLength

\* the reader has the essence start and the header information of its file,
\* and the packets of the file are whole
WellOpened ==
  /\ k_File /= NoOpenFile
  /\ k_Reader.m_EssenceStart = k_File[1].file.essence
  /\ k_Reader.EncryptedEssence = k_File[1].file.EncryptedEssence
  /\ WholePackets(k_File[1].file)

\* a ReadEKLVPacket for a frame of the index with the large buffer follows a
\* ReadEKLVPacket that returned SMALLBUF
ReadAfterSmallbuf ==
  /\ WellOpened
  /\ k_call.op = "ReadEKLVPacket"
  /\ k_result = "SMALLBUF"
  /\ k_call'.op = "ReadEKLVPacket"
  /\ k_call'.arg[1] < Len(k_Reader.m_FooterPart)
  /\ k_call'.arg[2] = 8

ReadsTheFrame ==
  /\ k_result' = "OK"
  /\ k_call'.kl_pos = k_Reader.m_EssenceStart + k_Reader.m_FooterPart[k_call'.arg[1] + 1]
  /\ k_out' = FrameBytes(k_File[1].file, k_call'.arg[1])

\* C17: after ReadEKLVPacket returned SMALLBUF for frame n, a ReadEKLVPacket
\* for any frame m of the index with a large enough buffer reads the key and
\* length at essence_start + stream_offset(m) and returns the bytes of frame m.
C17_SmallbufLeavesReaderUsable ==
  [][ReadAfterSmallbuf => ReadsTheFrame]_vars

\* the same for every m except the frame after n in a plaintext file
SmallbufThenOtherFrame ==
  [][(ReadAfterSmallbuf /\ ~(~k_File[1].file.EncryptedEssence
                             /\ k_call'.arg[1] = k_call.arg[1] + 1)) => ReadsTheFrame]_vars

\* a read with the large buffer delivers the frame whenever m_LastPosition
\* is the position of the file or differs from the position of the frame
ReadFromKnownPosition ==
  [][(/\ WellOpened
      /\ k_call'.op = "ReadEKLVPacket"
      /\ k_call'.arg[1] < Len(k_Reader.m_FooterPart)
      /\ k_call'.arg[2] = 8
      /\ \/ k_Reader.m_LastPosition = k_File[1].pos
         \/ k_Reader.m_LastPosition /=
              k_Reader.m_EssenceStart + k_Reader.m_FooterPart[k_call'.arg[1] + 1])
       => ReadsTheFrame]_vars

\* C18: OpenMXFRead parses a body partition pack, at the offset of the
\* second RIP pair, exactly when the RIP has three pairs; m_EssenceStart is
\* the file position after the last partition parsed; and the open fails
\* when the seek to the body partition or its parse fails.
C18_BodyPartitionIffThreePairs ==
  [][k_call'.op = "OpenMXFRead" =>
       LET file == k_File'[1].file
           pairs == Len(file.rip)
           seek_failed == k_call'.arg[2]
       IN /\ (k_call'.body_at /= Indeterminate) <=> (pairs = 3)
          /\ (pairs = 3 /\ ~seek_failed) => k_call'.body_at = file.rip[2]
          /\ k_Reader'.m_EssenceStart = k_File'[1].pos
          /\ (pairs /= 3) => k_Reader'.m_EssenceStart = Len(HeaderPartition)
          /\ (pairs = 3 /\ k_result' = "OK") =>
                k_Reader'.m_EssenceStart = k_call'.body_at + Len(BodyPartition)
          /\ (pairs = 3 /\ file.cells[k_call'.body_at + 1].t /= "Body") => k_result' /= "OK"
          /\ seek_failed => k_result' /= "OK"]_vars

\* C18 without its last part: all of it when the seek succeeds
BodyPartitionWhenSeekSucceeds ==
  [][(k_call'.op = "OpenMXFRead" /\ ~k_call'.arg[2]) =>
       LET file == k_File'[1].file
           pairs == Len(file.rip)
       IN /\ (k_call'.body_at /= Indeterminate) <=> (pairs = 3)
          /\ pairs = 3 => k_call'.body_at = file.rip[2]
          /\ k_Reader'.m_EssenceStart = k_File'[1].pos
          /\ (pairs /= 3) => k_Reader'.m_EssenceStart = Len(HeaderPartition)
          /\ (pairs = 3 /\ k_result' = "OK") =>
                k_Reader'.m_EssenceStart = file.rip[2] + Len(BodyPartition)
          /\ (pairs = 3 /\ file.cells[file.rip[2] + 1].t /= "Body") => k_result' /= "OK"]_vars

\* C19: OpenRead succeeds only if the header metadata has an
\* IABEssenceDescriptor, an IABSoundfieldLabelSubDescriptor and a Track; when
\* one of them is missing the call does not succeed, its result is FAIL once
\* the file itself could be opened and parsed, and the reader is left in
\* ST_READER_BEGIN without its h__Reader.
C19_OpenReadNeedsHeaderObjects ==
  [][(r_call'.op = "OpenRead" /\ disk' = disk) =>
       /\ r_result' = "OK" => HeaderObjects \subseteq disk.md
       /\ r_result' = "FAIL" => ~(HeaderObjects \subseteq disk.md)
       /\ (r_State = "ST_READER_BEGIN" /\ ~(HeaderObjects \subseteq disk.md)) =>
             /\ r_result' \in {"FAIL", "READFAIL", "FILEOPEN"}
             /\ r_State' = "ST_READER_BEGIN"
             /\ m_Reader' = NULL]_vars

\* OpenRead has returned FAIL for a file that lacks the Track alone
C19_Witness ==
  /\ r_call.op = "OpenRead"
  /\ r_result = "FAIL"
  /\ disk.md = HeaderObjects \ {"Track"}
  /\ r_State = "ST_READER_BEGIN"
  /\ m_Reader = NULL

\* each of the three objects is missed when it alone is absent
EachObjectMatters ==
  \A type \in HeaderObjects : ~HeaderChecks(HeaderObjects \ {type})

\* the metadata partitions of the file being written, in the order of the
\* WriteMetadata calls that made them
Partitions == IF m_Writer = NULL THEN <<>> ELSE m_Writer[1].m_Sets
TrackIDs == IF m_Writer = NULL THEN <<>> ELSE m_Writer[1].m_Tracks

\* C20: in every file the k-th WriteMetadata call uses BodySID k+1 and track
\* ID k+1, also in a file written after the same writer finalized or reset
\* an earlier file, and no two metadata partitions of a file share a BodySID.
C20_NumberingStartsAtTwo ==
  /\ \A k \in 1..Len(Partitions) :
        /\ Partitions[k].Partition.BodySID = k + 1
        /\ Partitions[k].GenericStreamSID = k + 1
        /\ TrackIDs[k] = k + 1
  /\ \A j, k \in 1..Len(Partitions) :
        j /= k => Partitions[j].Partition.BodySID /= Partitions[k].Partition.BodySID

\* what holds of the numbering: both counters rise by one per call from
\* where the writer object's earlier files left them
NumberingRisesByOne ==
  /\ Len(TrackIDs) = Len(Partitions)
  /\ \A k \in 1..Len(Partitions) :
        /\ Partitions[k].Partition.BodySID = m_GenericStreamID - Len(Partitions) + k - 1
        /\ Partitions[k].GenericStreamSID = Partitions[k].Partition.BodySID
        /\ TrackIDs[k] = m_NextTrackID - Len(Partitions) + k - 1
  /\ m_GenericStreamID >= 2 + Len(Partitions)
  /\ m_NextTrackID = m_GenericStreamID
\* C21: while the writer is open the index has one entry per frame written,
\* the k-th entry being the one pushed for the k-th frame (the stream offset
\* at which that frame was written); a WriteFrame whose write fails leaves no
\* writer, hence no index entry, behind, and a footer on disk lists one entry
\* per frame of its file.
C21_OneEntryPerFrame ==
  /\ [](/\ WriterOpen =>
             /\ Len(m_Writer[1].m_IndexWriter) = m_Writer[1].m_FramesWritten
             /\ Len(m_Writer[1].m_IndexWriter) = Len(FramesOf(g))
             /\ \A k \in 1..Len(FramesOf(g)) :
                  m_Writer[1].m_IndexWriter[k] =
                     EntriesFrom(g, InitialStreamOffset)[k]
        /\ disk.footer /= <<>> => Len(disk.footer[1].index) = Len(FramesOf(g)))
  /\ [][(w_call'.op = "WriteFrame" /\ w_result' = "WRITEFAIL") =>
          /\ m_Writer' = NULL
          /\ m_State' = "ST_BEGIN"
          /\ disk'.footer = <<>>]_vars

\* two frames written, the longer one first, and two entries
C21_Witness ==
  /\ WriterOpen
  /\ m_State = "ST_RUNNING"
  /\ g = <<<<"F", FrameB>>, <<"F", FrameA>>>>
  /\ m_Writer[1].m_FramesWritten = 2
  /\ m_Writer[1].m_IndexWriter = <<24, 44>>

\* a WriteFrame has failed after a frame had been written
FailedWriteFrame ==
  /\ w_call.op = "WriteFrame"
  /\ w_result = "WRITEFAIL"
  /\ m_Writer = NULL

\* C22: the writer state changes only BEGIN -> READY by an OpenWrite that
\* succeeds, READY -> RUNNING by a WriteFrame that succeeds, and to BEGIN by a
\* call that fails or by FinalizeMxf; a WriteFrame that succeeds leaves the
\* writer RUNNING, a FinalizeClip or WriteMetadata that succeeds leaves the
\* state as it was, and RUNNING never turns into READY.
C22_WriterTransitions ==
  [][/\ m_State' /= m_State =>
          \/ /\ m_State = "ST_BEGIN" /\ m_State' = "ST_READY"
             /\ w_call'.op = "OpenWrite" /\ w_result' = "OK"
          \/ /\ m_State = "ST_READY" /\ m_State' = "ST_RUNNING"
             /\ w_call'.op = "WriteFrame" /\ w_result' = "OK"
          \/ /\ m_State' = "ST_BEGIN"
             /\ w_result' /= "OK" \/ w_call'.op = "FinalizeMxf"
     /\ (w_call'.op = "WriteFrame" /\ w_result' = "OK") => m_State' = "ST_RUNNING"
     /\ (w_call'.op \in {"FinalizeClip", "WriteMetadata"} /\ w_result' = "OK") =>
          m_State' = m_State
     /\ ~(m_State = "ST_RUNNING" /\ m_State' = "ST_READY")]_vars

\* a second WriteFrame has succeeded: RUNNING -> RUNNING
C22_Witness ==
  /\ m_State = "ST_RUNNING"
  /\ w_call.op = "WriteFrame"
  /\ w_result = "OK"
  /\ m_Writer[1].m_FramesWritten = 2

ReaderMembers == <<r_State, m_Reader, m_CurrentFrameIndex, m_CurrentFrameBuffer>>

\* C23: OpenRead is accepted in ST_READER_BEGIN alone (STATE otherwise, with
\* nothing changed) and leads to READY with m_CurrentFrameIndex = -1; a
\* ReadFrame that succeeds leads to RUNNING; Close leads from READY and
\* RUNNING to BEGIN; in BEGIN, Close, GetFrameCount and ReadFrame return INIT
\* and change nothing; READY is entered by OpenRead alone; and the reader is
\* in BEGIN exactly when it holds no h__Reader.
C23_ReaderStateMachine ==
  /\ []((r_State = "ST_READER_BEGIN") <=> (m_Reader = NULL))
  /\ [][/\ (r_call'.op = "OpenRead" /\ r_State /= "ST_READER_BEGIN") =>
             /\ r_result' = "STATE"
             /\ UNCHANGED ReaderMembers
        /\ (r_call'.op = "OpenRead" /\ r_State = "ST_READER_BEGIN") =>
             IF r_result' = "OK"
               THEN r_State' = "ST_READER_READY" /\ m_CurrentFrameIndex' = -1
               ELSE r_State' = "ST_READER_BEGIN"
        /\ (r_call'.op = "ReadFrame" /\ r_result' = "OK") =>
             /\ r_State /= "ST_READER_BEGIN"
             /\ r_State' = "ST_READER_RUNNING"
        /\ (r_call'.op = "Close" /\ r_State /= "ST_READER_BEGIN") =>
             /\ r_result' = "OK"
             /\ r_State' = "ST_READER_BEGIN"
        /\ (r_call'.op \in {"Close", "GetFrameCount", "ReadFrame"}
              /\ r_State = "ST_READER_BEGIN") =>
             /\ r_result' = "INIT"
             /\ UNCHANGED ReaderMembers
        /\ (r_State' = "ST_READER_READY" /\ r_State /= "ST_READER_READY") =>
             r_call'.op = "OpenRead"
        /\ (r_State' = "ST_READER_RUNNING" /\ r_State /= "ST_READER_RUNNING") =>
             /\ r_call'.op = "ReadFrame"
             /\ r_State = "ST_READER_READY"]_vars

\* Close has taken a RUNNING reader back to BEGIN
C23_Witness ==
  /\ r_call.op = "Close"
  /\ r_result = "OK"
  /\ r_State = "ST_READER_BEGIN"
  /\ m_Reader = NULL
  /\ m_CurrentFrameIndex = 1


ClipStartOnDisk == NewWriter.pos

\* C25: for a file produced by OpenWrite, WriteFrame*, FinalizeClip,
\* FinalizeMxf, the position an uncached ReadFrame(n) gives to Seek is the
\* position at which WriteFrame wrote the first byte of frame n: clip_start,
\* plus 24, plus the sizes of the frames 0..n-1; the bytes of frame n lie there.
C25_SeekWhereFrameWasWritten ==
  /\ [](WriterOpen => m_ClipStart = ClipStartOnDisk)
  /\ [][(/\ w_call'.op = "WriteFrame" /\ w_result' = "OK"
         /\ OnlyFrames(g) /\ m_Writer[1].m_Sets = <<>>) =>
          disk'.body = FileWrite(disk.body,
                                 m_ClipStart + 24 + SumSizes(FramesOf(g)),
                                 w_call'.arg)]_vars
  /\ [][(/\ CleanFile
         /\ r_call'.op = "ReadFrame"
         /\ r_State /= "ST_READER_BEGIN"
         /\ r_call'.arg[1] /= m_CurrentFrameIndex
         /\ r_call'.arg[1] < Len(FramesOf(g))) =>
           LET n == r_call'.arg[1]
               frame == FramesOf(g)[n + 1]
           IN /\ r_seek' = ClipStartOnDisk + 24 + SumSizes(SubSeq(FramesOf(g), 1, n))
              /\ Available(disk, r_seek', Len(frame))
              /\ FileBytes(disk, r_seek', Len(frame)) = frame]_vars

C25_Witness ==
  /\ CleanFile
  /\ g = <<<<"F", FrameB>>, <<"F", FrameA>>>>
  /\ r_call = Call("ReadFrame", <<1>>)
  /\ r_result = "OK"
  /\ r_seek = ClipStartOnDisk + 24 + Len(FrameB)
  /\ FileBytes(disk, r_seek, Len(FrameA)) = FrameA


\* an open reader is asked for a frame in range that is not the cached one
UncachedReadFrame ==
  /\ r_call'.op = "ReadFrame"
  /\ r_State /= "ST_READER_BEGIN"
  /\ r_call'.arg[1] /= m_CurrentFrameIndex
  /\ r_call'.arg[1] < Len(disk.footer[1].index)

\* the buffer is the 5 + P + 5 + F file bytes at the position sought, P and F
\* being the big-endian lengths of the two TLs found there
ComposedFromFile(file, at, buf) ==
  /\ Available(file, at, preambleTLLen)
  /\ LET P == BE32(FileBytes(file, at, preambleTLLen))
     IN /\ Available(file, at + preambleTLLen + P, frameTLLen)
        /\ LET F == BE32(FileBytes(file, at + preambleTLLen + P, frameTLLen))
               size == preambleTLLen + P + frameTLLen + F
           IN /\ Available(file, at, size)
              /\ Len(buf) = size
              /\ buf = FileBytes(file, at, size)

\* the Seek, the two TLs, and the payloads that are not empty
ReadsOfFrame(buf) ==
  LET P == BE32(SubSeq(buf, 1, preambleTLLen))
      F == BE32(SubSeq(buf, preambleTLLen + P + 1, preambleTLLen + P + frameTLLen))
  IN 3 + (IF P > 0 THEN 1 ELSE 0) + (IF F > 0 THEN 1 ELSE 0)

\* C26: a successful uncached ReadFrame(n) returns exactly the 5 + P + 5 + F
\* consecutive file bytes at the frame's position, reads no payload for a
\* length of 0, and sets the cached frame index to n; a ReadFrame in which a
\* read failed leaves the cached index as it was.
C26_FrameComposition ==
  [][UncachedReadFrame =>
       IF r_result' = "OK"
         THEN /\ ComposedFromFile(disk, r_seek', m_CurrentFrameBuffer')
              /\ r_io' = ReadsOfFrame(m_CurrentFrameBuffer')
              /\ m_CurrentFrameIndex' = r_call'.arg[1]
         ELSE m_CurrentFrameIndex' = m_CurrentFrameIndex]_vars

\* the composition holds whenever the file holds every byte the four reads
\* ask for, and the index is cached only by a call that returns OK
ComposedWhenBytesPresent ==
  [][UncachedReadFrame =>
       IF r_result' = "OK"
         THEN /\ m_CurrentFrameBuffer' /= Garbage =>
                   /\ ComposedFromFile(disk, r_seek', m_CurrentFrameBuffer')
                   /\ r_io' = ReadsOfFrame(m_CurrentFrameBuffer')
              /\ m_CurrentFrameIndex' = r_call'.arg[1]
         ELSE m_CurrentFrameIndex' = m_CurrentFrameIndex]_vars

\* a frame with two empty payloads and one with two payloads of 5 bytes
ComposedFrameRead ==
  /\ r_call.op = "ReadFrame"
  /\ r_result = "OK"
  /\ \/ m_CurrentFrameBuffer = FrameA /\ r_io = 3
     \/ m_CurrentFrameBuffer = FrameB /\ r_io = 5


\* the last call was a ReadEKLVPacket in which the named read got fewer
\* cells than it asked for
ShortRead(which) == k_call.op = "ReadEKLVPacket" /\ k_call.short = which

\* C27: a ReadEKLVPacket in which a read delivers less than was requested,
\* be it the read of the key and length, of a plaintext value or of an
\* encrypted value, returns READFAIL.
C27_ShortReadsAreReadFail ==
  \A which \in {"KL", "plaintext", "encrypted"} :
     ShortRead(which) => k_result = "READFAIL"

\* the key and length read and the plaintext value read answer a short read
\* with READFAIL; the encrypted value read answers it with FORMAT
ShortReadResults ==
  /\ ShortRead("KL") => k_result = "READFAIL"
  /\ ShortRead("plaintext") => k_result = "READFAIL"
  /\ ShortRead("encrypted") => k_result = "FORMAT"

ShortKLRead == ShortRead("KL")
ShortPlaintextRead == ShortRead("plaintext")
ShortEncryptedRead == ShortRead("encrypted") /\ k_Reader.EncryptedEssence


\* a step that calls EncryptBlock or DecryptBlock with a block_size that is
\* 0 or not a multiple of the block size
BadSizeCall ==
  /\ c_call'.op \in {"AESEnc.EncryptBlock", "AESDec.DecryptBlock"}
  /\ Len(c_call'.arg) = 1
  /\ c_call'.arg[1] \in BadSizes

\* C28: EncryptBlock and DecryptBlock called with a size that is 0 or not a
\* multiple of 16 end without writing an output byte and without changing the
\* IV of the context, and do not run the loop on a size that never reaches 0.
C28_BadSizesRejected ==
  [][BadSizeCall =>
       /\ c_result' /= NoReturn
       /\ c_out' = <<>>
       /\ e_Context' = e_Context
       /\ d_Context' = d_Context]_vars

\* what holds of these calls: a size of 0 writes nothing and keeps the IV
\* in every build, and so does every bad size where assert() is compiled in
\* or the context has no key
ZeroSizeWritesNothing ==
  [][(BadSizeCall /\ (c_call'.arg[1] = 0 \/ c_result' \in {Aborted, "INIT"})) =>
       /\ c_out' = <<>>
       /\ e_Context' = e_Context
       /\ d_Context' = d_Context]_vars

\* a call with half a block has written a block and a new IV and not returned
HalfBlockRunsLoop ==
  /\ c_call.op = "AESEnc.EncryptBlock"
  /\ c_call.arg = <<CBC_BLOCK_SIZE \div 2>>
  /\ c_result = NoReturn
  /\ c_out /= <<>>
  /\ e_Context[1].m_IVec = c_out[1]
  /\ c_g.enc.iv \in IVs
  /\ e_Context[1].m_IVec /= c_g.enc.iv


\* the encryptor has a key and an IV, both written
EncryptorSet ==
  /\ e_Context /= NULL
  /\ c_g.enc.key \in Keys
  /\ c_g.enc.iv \in Blocks

\* block i of the CBC ciphertext of pt under key and iv, given the blocks
\* before it
CBCBlock(key, iv, pt, ct, i) ==
  AES_encrypt(key, Xor(pt[i], IF i = 1 THEN iv ELSE ct[i - 1]))

\* C29: every block EncryptBlock puts out is AES_K(pt XOR iv), iv being the
\* IV given to SetIVec for the first block and the ciphertext block before it
\* for the others, whether the blocks went through one call or several and
\* whether or not ct_buf was pt_buf; after a call the IV of the context is the
\* last ciphertext block put out.
C29_EncryptChaining ==
  EncryptorSet =>
     /\ Len(c_g.enc.ct) = Len(c_g.enc.pt)
     /\ \A i \in 1..Len(c_g.enc.ct) :
          c_g.enc.ct[i] = CBCBlock(c_g.enc.key, c_g.enc.iv, c_g.enc.pt, c_g.enc.ct, i)
     /\ c_g.enc.ct /= <<>> => e_Context[1].m_IVec = c_g.enc.ct[Len(c_g.enc.ct)]

\* the second of two blocks went through a call of its own, in place
C29_Witness ==
  /\ EncryptorSet
  /\ c_call.op = "AESEnc.EncryptBlock"
  /\ c_result = "OK"
  /\ Len(c_call.arg[1]) = 1
  /\ c_call.arg[2]
  /\ Len(c_g.enc.ct) = 2
  /\ c_out = <<c_g.enc.ct[2]>>
  /\ e_Context[1].m_IVec = c_g.enc.ct[2]
  /\ c_g.enc.ct[2] /= c_g.enc.ct[1]

\* two blocks went through one call
TwoBlocksInOneCall ==
  /\ EncryptorSet
  /\ c_call.op = "AESEnc.EncryptBlock"
  /\ c_result = "OK"
  /\ Len(c_call.arg[1]) = 2
  /\ c_out = c_g.enc.ct


\* the decryptor has a key and an IV, both written
DecryptorSet ==
  /\ d_Context /= NULL
  /\ c_g.dec.key \in Keys
  /\ c_g.dec.iv \in Blocks

\* block i of the CBC plaintext of ct under key and iv
CBCPlainBlock(key, iv, ct, i) ==
  Xor(AES_decrypt(key, ct[i]), IF i = 1 THEN iv ELSE ct[i - 1])

DecryptChained ==
  /\ Len(c_g.dec.pt) = Len(c_g.dec.ct)
  /\ \A i \in 1..Len(c_g.dec.ct) :
       c_g.dec.pt[i] = CBCPlainBlock(c_g.dec.key, c_g.dec.iv, c_g.dec.ct, i)
  /\ c_g.dec.ct /= <<>> => d_Context[1].m_IVec = c_g.dec.ct[Len(c_g.dec.ct)]

\* C30: every block DecryptBlock puts out is AES_K^-1(ct) XOR iv, iv being the
\* IV given to SetIVec for the first block and the ciphertext block before it
\* for the others, and after a call the IV of the context is the last
\* ciphertext block consumed, whether pt_buf is a buffer of its own or ct_buf.
C30_DecryptChaining ==
  DecryptorSet => DecryptChained

\* the same where no DecryptBlock call was given ct_buf as pt_buf
DecryptChainingSeparateBuffers ==
  (DecryptorSet /\ ~c_g.dec.same_buf) => DecryptChained

\* two blocks were decrypted into a buffer of their own, in one call
TwoBlocksDecrypted ==
  /\ DecryptorSet
  /\ ~c_g.dec.same_buf
  /\ c_call.op = "AESDec.DecryptBlock"
  /\ Len(c_call.arg[1]) = 2
  /\ c_out = c_g.dec.pt

\* decrypted in place, the IV of the context is the plaintext block
InPlaceKeepsPlaintextAsIV ==
  /\ DecryptorSet
  /\ c_call.op = "AESDec.DecryptBlock"
  /\ Len(c_call.arg[1]) = 1
  /\ c_call.arg[2]
  /\ Len(c_g.dec.ct) = 1
  /\ d_Context[1].m_IVec = c_g.dec.pt[1]
  /\ d_Context[1].m_IVec /= c_g.dec.ct[1]


\* the last call was SetKey on key bytes, with x0 the digest of round 1
SetKeyCalled == c_call.op = "HMAC.SetKey"

\* the carry into byte i of key + 1 + x0, both taken as strings of 20 bytes
\* with byte 20 the least significant: the 1 goes into byte 20
RECURSIVE CarryInto(_, _, _)
CarryInto(k, x, i) ==
  IF i = SHA_DIGEST_LENGTH THEN 1
  ELSE (k[i + 1] + x[i + 1] + CarryInto(k, x, i + 1)) \div 256

\* X = (key + 1 + x0) mod 2^160 as the 20 bytes of a 160-bit value: every
\* carry is passed on, the carry out of the first byte is dropped
X160(key, x0) ==
  LET k == PadTo(key, SHA_DIGEST_LENGTH)
  IN [i \in 1..SHA_DIGEST_LENGTH |-> (k[i] + x0[i] + CarryInto(k, x0, i)) % 256]

\* the bytes SetKey hashed after t in round 2
HashedInRound2 ==
  SubSeq(h_Context[1].m_key.of.sha1, Len(t_bytes) + 1, Len(h_Context[1].m_key.of.sha1))

\* C31: the MIC key SetKey derives is the first 16 bytes of SHA1(t || X), X
\* being the 20 bytes of (key + 1 + x0) mod 2^160, leading zero bytes included.
C31_MICKeyFromFull160 ==
  SetKeyCalled =>
     h_Context[1].m_key =
        Truncated(SHA1_Final(t_bytes \o X160(c_call.arg[1], c_call.arg[2])), KeyLen)

\* the sum itself is exact: what is hashed is X without its leading zero
\* bytes, and the key is the first 16 bytes of the digest
SumIsExact ==
  SetKeyCalled =>
     /\ HashedInRound2 = StripZeros(X160(c_call.arg[1], c_call.arg[2]))
     /\ h_Context[1].m_key.first = KeyLen
     /\ SubSeq(h_Context[1].m_key.of.sha1, 1, Len(t_bytes)) = t_bytes

\* the key is as C31 says whenever the first byte of X is not 0
FullWidthWhenNoLeadingZero ==
  (SetKeyCalled /\ X160(c_call.arg[1], c_call.arg[2])[1] /= 0) =>
     h_Context[1].m_key =
        Truncated(SHA1_Final(t_bytes \o X160(c_call.arg[1], c_call.arg[2])), KeyLen)

\* key + 1 + x0 reaches 2^160 and SetKey hashed the sum reduced mod 2^160
CarryOutDropped ==
  /\ SetKeyCalled
  /\ LET k == PadTo(c_call.arg[1], SHA_DIGEST_LENGTH)
     IN k[1] + c_call.arg[2][1] + CarryInto(k, c_call.arg[2], 1) >= 256
  /\ HashedInRound2 = StripZeros(X160(c_call.arg[1], c_call.arg[2]))

\* a carry runs from the last byte of the key into the bytes above the key
CarryBeyondKey ==
  /\ SetKeyCalled
  /\ c_call.arg[1] = Pattern(KeyLen, 255, 255, 255)
  /\ c_call.arg[2] = Pattern(SHA_DIGEST_LENGTH, 1, 0, 0)
  /\ HashedInRound2 = <<1, 0, 0, 1>> \o [i \in 1..KeyLen |-> 0]

\* X has leading zero bytes and fewer than 20 bytes were hashed
ShortXHashed ==
  /\ SetKeyCalled
  /\ X160(c_call.arg[1], c_call.arg[2])[1] = 0
  /\ Len(HashedInRound2) < SHA_DIGEST_LENGTH

\* the WriteMetadata calls of a session history that returned OK, in order
TextsOf(h) == SelectSeq(h, LAMBDA e : e[1] = "M")

\* the file on disk was closed by FinalizeMxf and each of its text-based sets
\* comes from a WriteMetadata call that returned OK
TextFile ==
  /\ disk.exists /\ disk.hdr /\ disk.footer /= <<>>
  /\ Len(disk.footer[1].sets) = Len(TextsOf(g))

\* a reader that opened the file has read the metadata of a description
MetadataRead ==
  /\ TextFile
  /\ r_call.op = "ReadMetadata"
  /\ r_result = "OK"

\* the caller's mimeType and FrameBuffer hold what the call e gave
ReadBack(e) == r_out = [mimeType |-> e[4], FrameBuffer |-> e[2]]

\* the calls of the session that gave the description read
CallsOfDescription ==
  {i \in 1..Len(TextsOf(g)) : TextsOf(g)[i][3] = r_call.arg[1]}

\* a WriteMetadata call on an open writer: the set, the partition and the RIP
\* pair it adds carry one BodySID, the pair points at the partition, which
\* starts where the file position was, and PreviousPartition is the offset of
\* the pair that was last in the RIP
PartitionOfTheCall ==
  (w_call'.op = "WriteMetadata" /\ m_Writer /= NULL /\ m_Writer' /= NULL) =>
     LET w == m_Writer[1]
         w2 == m_Writer'[1]
         set == w2.m_Sets[Len(w2.m_Sets)]
         pair == w2.m_RIP[Len(w2.m_RIP)]
     IN /\ Len(w2.m_Sets) = Len(w.m_Sets) + 1
        /\ Len(w2.m_RIP) = Len(w.m_RIP) + 1
        /\ set.GenericStreamSID = set.Partition.BodySID
        /\ pair.BodySID = set.Partition.BodySID
        /\ pair.ByteOffset = set.Partition.ThisPartition
        /\ pair.ByteOffset = w.pos
        /\ PartitionAt(disk', pair.ByteOffset)
        /\ set.Partition.PreviousPartition = w.m_RIP[Len(w.m_RIP)].ByteOffset

FirstOfTwoDescriptionsRead ==
  /\ MetadataRead
  /\ CallsOfDescription = {1}
  /\ Len(TextsOf(g)) = 2
  /\ TextsOf(g)[1][2] /= TextsOf(g)[2][2]
  /\ ReadBack(TextsOf(g)[1])

\* the last call on the h__Reader was a ReadEKLVPacket on an open file
EKLVReturned == k_File /= NoOpenFile /\ k_call.op = "ReadEKLVPacket"

\* m_LastPosition is the position of the file handle
MemoIsFilePosition == k_Reader.m_LastPosition = k_File[1].pos

\* a ReadEKLVPacket for a frame of the index finds the wanted position in
\* m_LastPosition and does not seek
SeekSkipped ==
  /\ k_File /= NoOpenFile
  /\ k_call'.op = "ReadEKLVPacket"
  /\ k_call'.arg[1] < Len(k_Reader.m_FooterPart)
  /\ k_Reader.m_LastPosition =
        k_Reader.m_EssenceStart + k_Reader.m_FooterPart[k_call'.arg[1] + 1]

\* the key and length of the call were read at essence_start + stream_offset
KLReadAtFrame ==
  k_call'.kl_pos = k_Reader.m_EssenceStart + k_Reader.m_FooterPart[k_call'.arg[1] + 1]

\* C33: after every return of ReadEKLVPacket, whatever the result,
\* m_LastPosition equals the position of the file handle; hence a call that
\* skips the seek reads its key and length at essence_start + stream_offset of
\* the frame requested.
C33_PositionMemo ==
  /\ [](EKLVReturned => MemoIsFilePosition)
  /\ [][SeekSkipped => KLReadAtFrame]_vars

\* the memo is right after every call that returned OK having read its key
\* and length at the position of its frame
MemoAfterFrameRead ==
  (/\ EKLVReturned
   /\ k_result = "OK"
   /\ k_call.kl_pos =
         k_Reader.m_EssenceStart + k_Reader.m_FooterPart[k_call.arg[1] + 1])
     => MemoIsFilePosition

\* a call that skips the seek reads at the position of the file handle, and
\* at the frame whenever the memo was right before it
SkippedSeekReadsAtHandle ==
  [][SeekSkipped => /\ k_call'.kl_pos = k_File[1].pos
                    /\ MemoIsFilePosition => KLReadAtFrame]_vars

\* SMALLBUF from a plaintext packet: the memo is past the value, the file
\* handle is at its start
MemoAheadAfterSmallbuf ==
  /\ EKLVReturned
  /\ k_result = "SMALLBUF"
  /\ k_Reader.m_LastPosition > k_File[1].pos

\* RANGE as the first call after OpenMXFRead: the memo is still 0
MemoUnsetAfterRange ==
  /\ EKLVReturned
  /\ k_result = "RANGE"
  /\ k_Reader.m_LastPosition = 0
  /\ k_File[1].pos > 0

\* a short read: the memo is past the end of the file
MemoBeyondFileAfterShortRead ==
  /\ EKLVReturned
  /\ k_call.short /= "none"
  /\ k_Reader.m_LastPosition /= k_File[1].pos

\* a call skipped the seek and read its key and length elsewhere than at
\* the frame it was asked for
SkippedSeekReadElsewhere ==
  /\ EKLVReturned
  /\ k_result /= "RANGE"
  /\ k_call.kl_pos /=
        k_Reader.m_EssenceStart + k_Reader.m_FooterPart[k_call.arg[1] + 1]

\* the operations of MXFWriter that test m_State before they use m_Writer
StateChecked == {"OpenWrite", "WriteFrame", "FinalizeClip"}

\* the h__Writer is present and its file is open: created, not yet closed by
\* a footer
WriterHoldsOpenFile ==
  /\ m_Writer /= NULL
  /\ disk.exists
  /\ disk.footer = <<>>

\* a call of an operation with a state test goes through m_Writer only when
\* m_Writer is present, and returns
CheckedCallFindsWriter ==
  (w_call'.op \in StateChecked) =>
     /\ (w_call'.op /= "OpenWrite" /\ ~NotRunning(m_State)) => m_Writer /= NULL
     /\ alive'
     /\ w_result' \notin {"SIGABRT", "SIGSEGV"}

\* C34: after every MXFWriter operation the state is BEGIN exactly when
\* m_Writer is null, and READY or RUNNING exactly when m_Writer is present
\* with an open file; under any sequence of OpenWrite, WriteFrame,
\* FinalizeClip, WriteMetadata and FinalizeMxf calls with any I/O failures, no
\* operation that passed its state test goes through a null m_Writer.
C34_StateMatchesOwnership ==
  /\ []((m_State = "ST_BEGIN") <=> (m_Writer = NULL))
  /\ []((m_State \in {"ST_READY", "ST_RUNNING"}) <=> WriterHoldsOpenFile)
  /\ [][CheckedCallFindsWriter]_vars

\* a WriteFrame passed its state test, its write failed, and it left BEGIN
\* with no writer
C34_Witness ==
  /\ w_call.op = "WriteFrame"
  /\ w_result = "WRITEFAIL"
  /\ m_State = "ST_BEGIN"
  /\ m_Writer = NULL
  /\ alive

\* a failed WriteMetadata does not reset: the state stays RUNNING and the
\* writer stays in place
FailedWriteMetadataKeepsWriter ==
  /\ w_call.op = "WriteMetadata"
  /\ w_result = "WRITEFAIL"
  /\ m_State = "ST_RUNNING"
  /\ WriterHoldsOpenFile

\* FinalizeClip on a writer opened again after a FinalizeMxf
FinalizeClipInLaterFile ==
  /\ w_call.op = "FinalizeClip"
  /\ w_result = "OK"
  /\ m_GenericStreamID > 2
  /\ m_Writer /= NULL
  /\ m_Writer[1].m_Sets = <<>>

====
